---- MODULE Spec2Model ----
(***************************************************************************)
(* A state-machine model of the web3-proxy core:                           *)
(*   - the provider tier (src/src/provider_tiers.rs): refresh of the       *)
(*     synced list and the two selection walks;                            *)
(*   - the block graph and the consensus-head tracker                      *)
(*     (src/web3_proxy/src/rpcs/blockchain.rs);                            *)
(*   - the stats aggregator (src/web3_proxy/src/app_stats_old.rs).         *)
(* Each subsystem has its own next-state relation and specification; they  *)
(* share the module's variables, and a subsystem leaves the variables of   *)
(* the others unchanged.                                                   *)
(***************************************************************************)
EXTENDS Integers, Sequences, FiniteSets, TLC

VARIABLES
    \* ---- provider tier ----
    limit,            \* per connection: the limit given to try_new (0: no rate limiter)
    synced_rpcs,      \* Web3ProviderTier.synced_rpcs (ArcSwap<Vec<String>>)
    available_rpcs,   \* the pool as sorted by the last update_synced_rpcs
    sync_status,      \* the statuses collected by the last update_synced_rpcs
    refreshed,        \* TRUE once update_synced_rpcs has run
    active_requests,  \* per connection: the active-request counter
    limiter_tat,      \* per connection: the rate limiter's state (GCRA "tat")
    now,              \* the shared clock, in ticks
    held,             \* per connection: handles handed to callers, not yet released
    last_sel,         \* the result of the last selection call
    \* ---- block graph ----
    block_hashes,     \* Web3Connections.block_hashes: the hashes whose block is stored
    block_numbers,    \* Web3Connections.block_numbers: number -> hash
    graph_nodes,      \* blockchain_graphmap: nodes
    graph_edges,      \* blockchain_graphmap: edges <<parent_hash, hash>>
    graph_lock,       \* the writer of blockchain_graphmap's lock (NoThread: free)
    call,             \* per thread: the save_block / cannonical_block call it runs
    \* ---- consensus tracker ----
    config,               \* min_sum_soft_limit and min_synced_rpcs of Web3Connections
    connection_heads,     \* rpc name -> head hash (NoHead: no entry)
    synced_connections,   \* the published SyncedConnections
    head_block_sender,    \* the watch channel: the hash of the last block sent
    watch_receivers,      \* TRUE while the watch channel has a receiver
    tracker,              \* process_incoming_blocks: running, failed, panicked, closed
    last_event,           \* what the last event did
    \* ---- stats aggregator ----
    stat_now,                    \* the wall clock, in seconds
    aggregate_rx,                \* the records sent to the ingest loop, not yet received
    aggregate_loop,              \* aggregate_stats_loop: running, signalled, panicked
    stat_tasks,                  \* the spawned aggregate_stat tasks, in spawn order
    aggregated_proxy_responses,  \* the outer cache: period_timestamp -> inner map (0: none)
    user_caches,                 \* the inner maps ever created: key -> aggregate (0: none)
    aggregates,                  \* the ProxyResponseAggregates ever created
    save_rx,                     \* the flush queue: evicted inner maps, not yet received
    saver,                       \* save_stats_loop: its position and the values it has loaded
    store,                       \* the rpc_accounting rows saved
    save_errors                  \* the number of rows whose save failed

tierVars == <<limit, synced_rpcs, available_rpcs, sync_status, refreshed,
              active_requests, limiter_tat, now, held, last_sel>>

graphVars == <<block_hashes, block_numbers, graph_nodes, graph_edges>>

callVars == <<graph_lock, call>>

trackerVars == <<config, connection_heads, synced_connections, head_block_sender,
                 watch_receivers, tracker, last_event>>

statVars == <<stat_now, aggregate_rx, aggregate_loop, stat_tasks,
              aggregated_proxy_responses, user_caches, aggregates, save_rx,
              saver, store, save_errors>>

\* the variables that the provider tier, the graph callers, the tracker and
\* the stats aggregator leave unchanged
nonTierVars == <<limit, graphVars, callVars, trackerVars, statVars>>
nonCallVars == <<tierVars, trackerVars, statVars>>
nonStatVars == <<tierVars, graphVars, callVars, trackerVars>>

----------------------------------------------------------------------------
(* Sequence helpers *)

Range(s) == {s[i] : i \in DOMAIN s}

RECURSIVE SumOver(_, _)
SumOver(f, S) ==
    IF S = {} THEN 0
    ELSE LET x == CHOOSE y \in S : TRUE
         IN  f[x] + SumOver(f, S \ {x})

Max2(a, b) == IF a >= b THEN a ELSE b

----------------------------------------------------------------------------
(* Provider tier: configuration *)

\* try_new(servers, ...): the pool, in configuration order, with each limit
Rpcs == <<"A", "B", "C">>
RpcNames == Range(Rpcs)
Limit == [r \in RpcNames |-> CASE r = "A" -> 1 [] r = "B" -> 2 [] OTHER -> 0]
\* the same pool with a rate limiter on every connection
LimitEach == [Limit EXCEPT !["C"] = Limit["A"]]

\* clock resolution: one second is this many ticks, so that every replenish
\* interval 1s/limit is a whole number of ticks
TicksPerSecond == Limit["A"] * Limit["B"]
\* the clock stops advancing at MaxClock
MaxClock == 2
\* at most MaxHeld handles are outstanding at a time
MaxHeld == 3

\* Option<T>: None is the empty sequence, Some(x) the one-element sequence
None == <<>>
Some(x) == <<x>>
NoTat == None

\* block_watcher.sync_status(rpc, allowed_lag): Synced(n), Behind(n) or Unknown
HeadNums == {1, 2}
Synced(n) == [kind |-> "Synced", num |-> n]
Behind(n) == [kind |-> "Behind", num |-> n]
Unknown == [kind |-> "Unknown", num |-> 0]
SyncStatus == {Synced(n) : n \in HeadNums} \cup {Behind(n) : n \in HeadNums} \cup {Unknown}

----------------------------------------------------------------------------
(* Rate limiter (governor, Quota::per_second(limit)) and connection *)

\* a tier that builds a rate limiter for every upstream, of one request per
\* second when the limit is 0
RateLimiterOrOnePerSecond(r) == Some(Max2(limit[r], 1))

\* try_new, lines 46-54: the rate limiter the connection of r is built
\* with: Some(limit) when limit > 0, else None
RateLimiter(r) == IF limit[r] > 0 THEN Some(limit[r]) ELSE None

\* Quota::per_second(limit): one cell is replenished every 1s/limit,
\* and the burst is `limit` cells
ReplenishInterval(r) == TicksPerSecond \div RateLimiter(r)[1]
Tau(r) == ReplenishInterval(r) * RateLimiter(r)[1]

\* governor's GCRA test_and_update on the limiter of r, at time t0:
\* [ok, tat (the new state), not_until (earliest_possible when denied)]
TestAndUpdate(r, tat0, t0) ==
    LET t == ReplenishInterval(r)
        tat == IF tat0 = NoTat THEN t0 + t ELSE tat0[1]
        earliest_time == Max2(tat - Tau(r), 0)
    IN  IF t0 < earliest_time
        THEN [ok |-> FALSE, tat |-> tat0, not_until |-> earliest_time]
        ELSE [ok |-> TRUE, tat |-> Some(Max2(tat, t0) + t), not_until |-> 0]

\* Web3Connection::try_inc_active_requests: consult the rate limiter (if the
\* connection has one); on success increment the active counter.
\* c = [tat, active] is the connection's state.
TryIncActiveRequests(r, c, t0) ==
    IF RateLimiter(r) = None
    THEN [ok |-> TRUE, tat |-> c.tat, active |-> c.active + 1, not_until |-> 0]
    ELSE LET a == TestAndUpdate(r, c.tat, t0)
         IN  [ok |-> a.ok, tat |-> a.tat,
              active |-> IF a.ok THEN c.active + 1 ELSE c.active,
              not_until |-> a.not_until]

\* impl Ord for Web3Connection: by active requests
ConnectionCmp(a, b, act) ==
    IF act[a] < act[b] THEN "Less"
    ELSE IF act[a] > act[b] THEN "Greater" ELSE "Equal"

NumCmp(a, b) == IF a < b THEN "Less" ELSE IF a > b THEN "Greater" ELSE "Equal"

----------------------------------------------------------------------------
(* update_synced_rpcs *)

\* the closure given to sort_unstable_by
SortCmp(a, b, st, act) ==
    LET sa == st[a]
        sb == st[b]
    IN  CASE sa.kind = "Synced" /\ sb.kind = "Synced" ->
                IF sa.num # sb.num THEN NumCmp(sa.num, sb.num)
                ELSE ConnectionCmp(a, b, act)
          [] sa.kind = "Synced" /\ sb.kind = "Unknown" -> "Greater"
          [] sa.kind = "Unknown" /\ sb.kind = "Synced" -> "Less"
          [] sa.kind = "Unknown" /\ sb.kind = "Unknown" -> "Equal"
          [] sa.kind = "Synced" /\ sb.kind = "Behind" -> "Greater"
          [] sa.kind = "Behind" /\ sb.kind = "Synced" -> "Less"
          [] sa.kind = "Behind" /\ sb.kind = "Unknown" -> "Greater"
          [] sa.kind = "Behind" /\ sb.kind = "Behind" ->
                IF sa.num # sb.num THEN NumCmp(sa.num, sb.num)
                ELSE ConnectionCmp(a, b, act)
          [] sa.kind = "Unknown" /\ sb.kind = "Behind" -> "Less"

PermSeqs(S) ==
    {p \in [1..Cardinality(S) -> S] : \A x \in S : \E i \in DOMAIN p : p[i] = x}

\* sort_unstable_by: some permutation in which no element is Greater than a
\* later one (the order of Equal elements is unspecified)
RpcPerms == PermSeqs(RpcNames)
StatusMaps == [RpcNames -> SyncStatus]

SortUnstableBy(st, act) ==
    {p \in RpcPerms :
        \A i, j \in DOMAIN p : i < j => SortCmp(p[i], p[j], st, act) # "Greater"}

\* a take_while that stops only at an Unknown status
RECURSIVE TakeWhileKnown(_, _)
TakeWhileKnown(s, st) ==
    IF s = <<>> \/ st[Head(s)].kind = "Unknown" THEN <<>>
    ELSE <<Head(s)>> \o TakeWhileKnown(Tail(s), st)

\* take_while(|rpc| matches!(status, Synced(_)))
RECURSIVE TakeWhileSynced(_, _)
TakeWhileSynced(s, st) ==
    IF s = <<>> \/ st[Head(s)].kind # "Synced" THEN <<>>
    ELSE <<Head(s)>> \o TakeWhileSynced(Tail(s), st)

\* the statuses are collected, the pool is sorted, the Synced prefix is published
UpdateSyncedRpcs ==
    \E st \in StatusMaps :
      \E sorted \in SortUnstableBy(st, active_requests) :
        /\ sync_status' = st
        /\ available_rpcs' = sorted
        /\ synced_rpcs' = TakeWhileSynced(sorted, st)
        /\ refreshed' = TRUE
        /\ UNCHANGED <<active_requests, limiter_tat, now, held, last_sel, nonTierVars>>

\* update_synced_rpcs as the selection walks see it: only the published list
\* (the statuses and the sorted pool are locals of the call). A Behind status
\* ends the published prefix exactly as an Unknown one does, so the statuses
\* are drawn from Synced(n) and Unknown.
SelectStatusMaps == [RpcNames -> {Synced(n) : n \in HeadNums} \cup {Unknown}]

\* what update_synced_rpcs can publish under the active counters act: the
\* statuses and the order of equal elements are free
PublishedUnder(act) ==
    {s \in UNION {{TakeWhileSynced(sorted, st) : sorted \in SortUnstableBy(st, act)} :
                  st \in SelectStatusMaps} : TRUE}

\* PublishedUnder, tabulated once over the values of the active counters
RECURSIVE Tabulated(_)
Tabulated(acts) ==
    LET act == CHOOSE a \in acts : TRUE
    IN  IF acts = {act} THEN act :> PublishedUnder(act)
        ELSE (act :> PublishedUnder(act)) @@ Tabulated(acts \ {act})

RefreshOutcomes == Tabulated([RpcNames -> 0..MaxHeld])

RefreshSynced ==
    \E published \in RefreshOutcomes[active_requests] :
        /\ synced_rpcs' = published
        /\ UNCHANGED <<sync_status, available_rpcs, refreshed,
                       active_requests, limiter_tat, now, held, last_sel, nonTierVars>>

----------------------------------------------------------------------------
(* next_upstream_server and get_upstream_servers *)

Conn(r, tat, act) == [tat |-> tat[r], active |-> act[r]]

\* a bookkeeping that keeps the NotUntil of the last denial
EarliestNotUntilLast(earliest, not_until) == Some(not_until)

\* the bookkeeping of earliest_not_until on a denial
EarliestNotUntil(earliest, not_until) ==
    IF earliest = None THEN Some(not_until)
    ELSE IF earliest[1] > not_until THEN Some(not_until) ELSE earliest

\* a loop that walks the snapshot from its end
RECURSIVE NextWalkBackwards(_, _, _, _, _, _)
NextWalkBackwards(s, i, tat, act, earliest, tried) ==
    IF i > Len(s)
    THEN [ok |-> FALSE, names |-> <<>>, tat |-> tat, active |-> act,
          earliest |-> earliest, tried |-> tried]
    ELSE LET r == s[Len(s) + 1 - i]
             a == TryIncActiveRequests(r, Conn(r, tat, act), now)
         IN  IF ~a.ok
             THEN NextWalkBackwards(s, i + 1, tat, act,
                                    IF earliest = None THEN Some(a.not_until)
                                    ELSE IF earliest[1] > a.not_until
                                    THEN Some(a.not_until) ELSE earliest,
                                    Append(tried, r))
             ELSE [ok |-> TRUE, names |-> <<r>>,
                   tat |-> [tat EXCEPT ![r] = a.tat],
                   active |-> [act EXCEPT ![r] = a.active],
                   earliest |-> earliest, tried |-> Append(tried, r)]

\* a loop that counts the request on an upstream before asking its limiter
RECURSIVE NextWalkCountsDenied(_, _, _, _, _, _)
NextWalkCountsDenied(s, i, tat, act, earliest, tried) ==
    IF i > Len(s)
    THEN [ok |-> FALSE, names |-> <<>>, tat |-> tat, active |-> act,
          earliest |-> earliest, tried |-> tried]
    ELSE LET r == s[i]
             a == TryIncActiveRequests(r, Conn(r, tat, act), now)
         IN  IF ~a.ok
             THEN NextWalkCountsDenied(s, i + 1, tat, [act EXCEPT ![r] = @ + 1],
                                       IF earliest = None THEN Some(a.not_until)
                                       ELSE IF earliest[1] > a.not_until
                                       THEN Some(a.not_until) ELSE earliest,
                                       Append(tried, r))
             ELSE [ok |-> TRUE, names |-> <<r>>,
                   tat |-> [tat EXCEPT ![r] = a.tat],
                   active |-> [act EXCEPT ![r] = a.active],
                   earliest |-> earliest, tried |-> Append(tried, r)]

\* the loop of next_upstream_server from position i of the snapshot s:
\* [ok, name, tat, active, earliest, tried]
RECURSIVE NextWalk(_, _, _, _, _, _)
NextWalk(s, i, tat, act, earliest, tried) ==
    IF i > Len(s)
    THEN [ok |-> FALSE, names |-> <<>>, tat |-> tat, active |-> act,
          earliest |-> earliest, tried |-> tried]
    ELSE LET r == s[i]
             a == TryIncActiveRequests(r, Conn(r, tat, act), now)
         IN  IF ~a.ok
             THEN NextWalk(s, i + 1, tat, act,
                           EarliestNotUntil(earliest, a.not_until), Append(tried, r))
             ELSE [ok |-> TRUE, names |-> <<r>>,
                   tat |-> [tat EXCEPT ![r] = a.tat],
                   active |-> [act EXCEPT ![r] = a.active],
                   earliest |-> earliest, tried |-> Append(tried, r)]

\* a loop of get_upstream_servers that returns at its first success
RECURSIVE AllWalkFirstOnly(_, _, _, _, _, _, _)
AllWalkFirstOnly(s, i, tat, act, earliest, selected, tried) ==
    IF i > Len(s)
    THEN [ok |-> selected # <<>>, names |-> selected, tat |-> tat, active |-> act,
          earliest |-> earliest, tried |-> tried]
    ELSE LET r == s[i]
             a == TryIncActiveRequests(r, Conn(r, tat, act), now)
         IN  IF ~a.ok
             THEN AllWalkFirstOnly(s, i + 1, tat, act,
                                   IF earliest = None THEN Some(a.not_until)
                                   ELSE IF earliest[1] > a.not_until
                                   THEN Some(a.not_until) ELSE earliest,
                                   selected, Append(tried, r))
             ELSE [ok |-> TRUE, names |-> Append(selected, r),
                   tat |-> [tat EXCEPT ![r] = a.tat],
                   active |-> [act EXCEPT ![r] = a.active],
                   earliest |-> earliest, tried |-> Append(tried, r)]

\* the loop of get_upstream_servers from position i of the snapshot s
RECURSIVE AllWalk(_, _, _, _, _, _, _)
AllWalk(s, i, tat, act, earliest, selected, tried) ==
    IF i > Len(s)
    THEN [ok |-> selected # <<>>, names |-> selected, tat |-> tat, active |-> act,
          earliest |-> earliest, tried |-> tried]
    ELSE LET r == s[i]
             a == TryIncActiveRequests(r, Conn(r, tat, act), now)
         IN  IF ~a.ok
             THEN AllWalk(s, i + 1, tat, act,
                          EarliestNotUntil(earliest, a.not_until), selected,
                          Append(tried, r))
             ELSE AllWalk(s, i + 1, [tat EXCEPT ![r] = a.tat],
                          [act EXCEPT ![r] = a.active], earliest,
                          Append(selected, r), Append(tried, r))

GetUpstreamServersResult(s, tat, act) == AllWalk(s, 1, tat, act, None, <<>>, <<>>)

\* a next_upstream_server whose loop goes on after the first success and
\* returns the first name only
NextUpstreamServerNoReturn(s, tat, act) ==
    LET res == AllWalk(s, 1, tat, act, None, <<>>, <<>>)
    IN  [res EXCEPT !.names = IF res.names = <<>> THEN <<>> ELSE <<res.names[1]>>]

NextUpstreamServerResult(s, tat, act) == NextWalk(s, 1, tat, act, None, <<>>)

TotalHeld == SumOver(held, RpcNames)

\* the caller receives Ok(names) or Err(earliest_not_until), and holds one
\* handle for each name it was given
Surface(op, res) ==
    /\ limiter_tat' = res.tat
    /\ active_requests' = res.active
    /\ held' = [r \in RpcNames |->
                  held[r] + Cardinality({i \in DOMAIN res.names : res.names[i] = r})]
    /\ last_sel' = [op |-> op, ok |-> res.ok, names |-> res.names,
                    earliest |-> IF res.ok THEN None ELSE res.earliest]
    /\ UNCHANGED <<synced_rpcs, available_rpcs, sync_status, refreshed, now, nonTierVars>>

NextUpstreamServer ==
    /\ TotalHeld < MaxHeld
    /\ Surface("next", NextUpstreamServerResult(synced_rpcs, limiter_tat, active_requests))

GetUpstreamServers ==
    /\ TotalHeld + Len(synced_rpcs) <= MaxHeld
    /\ Surface("all", GetUpstreamServersResult(synced_rpcs, limiter_tat, active_requests))

\* a caller finishes its request (successfully or not) and drops the handle:
\* the active counter is decremented
ReleaseHandle ==
    \E r \in RpcNames :
        /\ held[r] > 0
        /\ held' = [held EXCEPT ![r] = @ - 1]
        /\ active_requests' = [active_requests EXCEPT ![r] = @ - 1]
        /\ UNCHANGED <<synced_rpcs, available_rpcs, sync_status, refreshed,
                       limiter_tat, now, last_sel, nonTierVars>>

\* the clock advances
Tick ==
    /\ now < MaxClock
    /\ now' = now + 1
    /\ UNCHANGED <<synced_rpcs, available_rpcs, sync_status, refreshed,
                   active_requests, limiter_tat, held, last_sel, nonTierVars>>

InitTierOf(servers) ==
    /\ limit \in servers
    /\ synced_rpcs = <<>>
    /\ available_rpcs = Rpcs
    /\ sync_status = [r \in RpcNames |-> Unknown]
    /\ refreshed = FALSE
    /\ active_requests = [r \in RpcNames |-> 0]
    /\ limiter_tat = [r \in RpcNames |-> NoTat]
    /\ now = 0
    /\ held = [r \in RpcNames |-> 0]
    /\ last_sel = [op |-> "none", ok |-> FALSE, names |-> <<>>, earliest |-> None]

InitTier == InitTierOf({Limit})

\* at most MaxActive requests are active on a connection when the refresh runs
MaxActive == 1

\* the tier at a moment where callers hold some handles
InitRefresh ==
    /\ limit = Limit
    /\ synced_rpcs = <<>>
    /\ available_rpcs = Rpcs
    /\ sync_status = [r \in RpcNames |-> Unknown]
    /\ refreshed = FALSE
    /\ held \in [RpcNames -> 0..MaxActive]
    /\ active_requests = held
    /\ limiter_tat = [r \in RpcNames |-> NoTat]
    /\ now = 0
    /\ last_sel = [op |-> "none", ok |-> FALSE, names |-> <<>>, earliest |-> None]


----------------------------------------------------------------------------
(* Blocks *)

\* Block<TxHash>: hash, number and total_difficulty are Options
Blk(h, n, parent, td) ==
    [hash |-> h, number |-> n, parent_hash |-> parent, total_difficulty |-> td]

\* the blocks the upstreams can report: a chain g <- p <- a <- c with the
\* fork b (a sibling of a of higher total difficulty), a block of number 0
\* (an upstream still syncing), a block without total difficulty and a
\* block without hash
Blocks ==
    { Blk(Some("g"), Some(8), "r", Some(80)),
      Blk(Some("p"), Some(9), "g", Some(90)),
      Blk(Some("a"), Some(10), "p", Some(100)),
      Blk(Some("b"), Some(10), "p", Some(101)),
      Blk(Some("c"), Some(11), "a", Some(110)),
      Blk(Some("z"), Some(0), "r", Some(0)),
      Blk(Some("t"), Some(11), "b", None),
      Blk(None, Some(11), "a", Some(110)) }

BlockOf(h) == CHOOSE b \in Blocks : b.hash = Some(h)

NoHash == "-"
BlockNums == {b.number[1] : b \in {x \in Blocks : x.number # None}}

----------------------------------------------------------------------------
(* save_block *)

Graph == [hashes |-> block_hashes, numbers |-> block_numbers,
          nodes |-> graph_nodes, edges |-> graph_edges]

\* a check that does not ask for the total difficulty
IsCompleteButDifficulty(b) == b.hash # None /\ b.number # None

\* lines 42-47: hash, number and total difficulty are required
IsComplete(b) == b.hash # None /\ b.number # None /\ b.total_difficulty # None

\* lines 49-63: block_numbers.entry(num): insert or overwrite
NumbersUpsert(numbers, b) == [numbers EXCEPT ![b.number[1]] = b.hash[1]]

\* lines 79-94: block_hashes.insert, add_node, add_edge (add_edge also adds
\* the parent's node when the graph does not have it)
InsertBlock(g, b) ==
    [g EXCEPT !.hashes = @ \cup {b.hash[1]},
              !.nodes = @ \cup {b.hash[1], b.parent_hash},
              !.edges = @ \cup {<<b.parent_hash, b.hash[1]>>}]

\* a save_block that writes block_numbers only once it finds the block stored
SaveBlockUpsertLate(g, b, heaviest_chain) ==
    IF ~IsComplete(b) THEN [ok |-> FALSE, g |-> g]
    ELSE IF b.hash[1] \in g.hashes
         THEN [ok |-> TRUE,
               g |-> IF heaviest_chain
                     THEN [g EXCEPT !.numbers = NumbersUpsert(@, b)] ELSE g]
         ELSE IF b.hash[1] \in g.nodes THEN [ok |-> TRUE, g |-> g]
         ELSE [ok |-> TRUE, g |-> InsertBlock(g, b)]

\* save_block run to its end by one caller: [ok, g]
SaveBlock(g, b, heaviest_chain) ==
    IF ~IsComplete(b) THEN [ok |-> FALSE, g |-> g]
    ELSE LET g1 == IF heaviest_chain
                   THEN [g EXCEPT !.numbers = NumbersUpsert(@, b)]
                   ELSE g
         IN  IF b.hash[1] \in g1.hashes THEN [ok |-> TRUE, g |-> g1]
             ELSE IF b.hash[1] \in g1.nodes THEN [ok |-> TRUE, g |-> g1]
             ELSE [ok |-> TRUE, g |-> InsertBlock(g1, b)]

SetGraph(g) ==
    /\ block_hashes' = g.hashes
    /\ block_numbers' = g.numbers
    /\ graph_nodes' = g.nodes
    /\ graph_edges' = g.edges

InitGraph ==
    /\ block_hashes = {}
    /\ block_numbers = [n \in BlockNums |-> NoHash]
    /\ graph_nodes = {}
    /\ graph_edges = {}

----------------------------------------------------------------------------
(* The consensus tracker: process_incoming_blocks / process_block_from_rpc *)

\* configuration: the thresholds of Web3Connections (a quorum of two
\* upstreams, or a single upstream) and each connection's soft_limit
Configs == { [min_sum_soft_limit |-> 20, min_synced_rpcs |-> 2],
             [min_sum_soft_limit |-> 10, min_synced_rpcs |-> 1] }
SoftLimit == [r \in RpcNames |-> 10]

\* the number of blocks the walk examines (for _ in 0..3)
WalkDepth == 3

NoHead == "-"
BlockId(b) == [hash |-> b.hash[1], num |-> b.number[1]]
EmptySynced == [head_block_id |-> None, conns |-> {}]

\* a match whose last arm leaves the entry of the source as it is
RecordHeadKeepStale(heads, b, rpc) ==
    IF b.hash # None /\ b.number # None
    THEN IF b.number[1] = 0
         THEN [heads |-> [heads EXCEPT ![rpc] = NoHead], save |-> FALSE,
               entry |-> "syncing"]
         ELSE [heads |-> [heads EXCEPT ![rpc] = b.hash[1]], save |-> TRUE,
               entry |-> "inserted"]
    ELSE [heads |-> heads, save |-> FALSE, entry |-> "incomplete"]

\* a match without the "still syncing" arm: a block of number 0 is recorded
\* like any other
RecordHeadAnyNumber(heads, b, rpc) ==
    IF b.hash # None /\ b.number # None
    THEN [heads |-> [heads EXCEPT ![rpc] = b.hash[1]], save |-> TRUE,
          entry |-> "inserted"]
    ELSE [heads |-> [heads EXCEPT ![rpc] = NoHead], save |-> FALSE,
          entry |-> "incomplete"]

\* lines 254-282: the source's entry in connection_heads
\* [heads, save, entry]: save tells whether save_block is called, entry
\* which arm of the match ran ("still syncing" / "Block without number or
\* hash!" in the log)
RecordHead(heads, b, rpc) ==
    IF b.hash # None /\ b.number # None
    THEN IF b.number[1] = 0
         THEN [heads |-> [heads EXCEPT ![rpc] = NoHead], save |-> FALSE,
               entry |-> "syncing"]
         ELSE [heads |-> [heads EXCEPT ![rpc] = b.hash[1]], save |-> TRUE,
               entry |-> "inserted"]
    ELSE [heads |-> [heads EXCEPT ![rpc] = NoHead], save |-> FALSE,
          entry |-> "incomplete"]

HeadHashes(heads) == {heads[r] : r \in RpcNames} \ {NoHead}

\* a loop whose comparison is always true: any checked head is kept
AnyCheckedHashes(heads) == HeadHashes(heads)

\* lines 285-318: the heads of the highest total difficulty; the loop keeps
\* the first it meets in the map's iteration order
HighestWorkHashes(heads) ==
    {h \in HeadHashes(heads) :
        \A k \in HeadHashes(heads) :
            BlockOf(k).total_difficulty[1] <= BlockOf(h).total_difficulty[1]}

\* a threshold check that only asks for one rpc on the block
NotEnoughNoThreshold(sum, rpcs, cfg) == rpcs = {}

\* lines 352-353: not enough rpcs yet
NotEnough(sum, rpcs, cfg) ==
    sum < cfg.min_sum_soft_limit \/ Cardinality(rpcs) < cfg.min_synced_rpcs

\* a walk that goes on to the oldest stored ancestor
RECURSIVE ConsensusWalkToRoot(_, _, _, _, _)
ConsensusWalkToRoot(i, h, heavy_rpcs, heads, hashes) ==
    LET heavy == heavy_rpcs \cup {r \in RpcNames : heads[r] = h}
        heavy_sum_soft_limit == SumOver(SoftLimit, heavy)
    IN  IF NotEnough(heavy_sum_soft_limit, heavy, config)
        THEN IF BlockOf(h).parent_hash \in hashes
             THEN ConsensusWalkToRoot(i + 1, BlockOf(h).parent_hash, heavy, heads, hashes)
             ELSE [found |-> FALSE, hash |-> h, conns |-> heavy]
        ELSE [found |-> TRUE, hash |-> h, conns |-> heavy]

\* lines 332-446: the walk from maybe_head_block, i iterations done, with
\* the heavy rpcs accumulated so far: [found, block, conns]
RECURSIVE ConsensusWalk(_, _, _, _, _)
ConsensusWalk(i, h, heavy_rpcs, heads, hashes) ==
    IF i >= WalkDepth THEN [found |-> FALSE, hash |-> h, conns |-> heavy_rpcs]
    ELSE LET heavy == heavy_rpcs \cup {r \in RpcNames : heads[r] = h}
             heavy_sum_soft_limit == SumOver(SoftLimit, heavy)
         IN  IF NotEnough(heavy_sum_soft_limit, heavy, config)
             THEN IF BlockOf(h).parent_hash \in hashes
                  THEN ConsensusWalk(i + 1, BlockOf(h).parent_hash, heavy, heads, hashes)
                  ELSE [found |-> FALSE, hash |-> h, conns |-> heavy]
             ELSE [found |-> TRUE, hash |-> h, conns |-> heavy]

\* a publication rule that takes two heads of equal number for the same head
SendsHeadByNumber(old, new) ==
    IF old = None THEN TRUE ELSE new.num # old[1].num

\* lines 405-443: whether the head block is sent, given the old head id
SendsHead(old, new) ==
    IF old = None THEN TRUE
    ELSE IF new.num = old[1].num THEN new.hash # old[1].hash
    ELSE TRUE

\* a failed walk that leaves the published SyncedConnections as it is
KeepSynced(old_synced_connections) == old_synced_connections

\* lines 448-453: the walk found no consensus head: the default (empty)
\* SyncedConnections is swapped in
ClearSynced(old_synced_connections) == EmptySynced

\* a swap that is skipped when the head is the one already published
SwapIfHeadChanged(old_synced_connections, id, conns) ==
    IF old_synced_connections.head_block_id = Some(id)
    THEN old_synced_connections
    ELSE [head_block_id |-> Some(id), conns |-> conns]

\* lines 387-394: new_synced_connections, swapped in whatever the old one was
NewSyncedConnections(old_synced_connections, id, conns) ==
    [head_block_id |-> Some(id), conns |-> conns]

Event(kind, old, sends, entry) ==
    [kind |-> kind, old_head |-> old, sends |-> sends, entry |-> entry]

\* what process_block_from_rpc reads and writes
TrackerState ==
    [heads |-> connection_heads, g |-> Graph, synced |-> synced_connections,
     sender |-> head_block_sender, tracker |-> tracker, event |-> last_event]

\* lines 321-453: the walk from the candidate first and what it publishes
Published(st, first, entry) ==
    LET w == ConsensusWalk(0, first, {}, st.heads, st.g.hashes)
        id == BlockId(BlockOf(w.hash))
        old == st.synced.head_block_id
    IN  IF w.found
        THEN LET new == [st EXCEPT !.synced = NewSyncedConnections(st.synced, id, w.conns)]
             IN  IF SendsHead(old, id)
                 THEN IF watch_receivers
                      THEN [new EXCEPT !.event = Event("consensus", old, 1, entry),
                                       !.sender = id.hash]
                      ELSE \* send(...)? returns the error
                           [new EXCEPT !.event = Event("consensus", old, 1, entry),
                                       !.tracker = "failed"]
                 ELSE [new EXCEPT !.event = Event("consensus", old, 0, entry)]
        ELSE [st EXCEPT !.synced = ClearSynced(st.synced),
                        !.event = Event("empty", old, 0, entry)]

\* lines 245-458: the states in which process_block_from_rpc(b, rpc), called
\* in the state st, can leave the tracker
EventOutcomes(st, b, rpc) ==
    LET rec == RecordHead(st.heads, b, rpc)
        sb == IF rec.save THEN SaveBlock(st.g, b, FALSE)
              ELSE [ok |-> TRUE, g |-> st.g]
        old == st.synced.head_block_id
        saved == [st EXCEPT !.heads = rec.heads, !.g = sb.g]
    IN  IF ~sb.ok
        THEN \* save_block(...)? returns the error
             {[saved EXCEPT !.tracker = "failed",
                            !.event = Event("error", old, 0, rec.entry)]}
        ELSE IF \E h \in HeadHashes(rec.heads) : h \notin sb.g.hashes
        THEN \* block_hashes.get(rpc_head_hash).unwrap() panics
             {[saved EXCEPT !.tracker = "panicked",
                            !.event = Event("panic", old, 0, rec.entry)]}
        ELSE IF HeadHashes(rec.heads) = {}
        THEN \* no highest_work_block: nothing is published
             {[saved EXCEPT !.event = Event("noheads", old, 0, rec.entry)]}
        ELSE {Published(saved, first, rec.entry) :
                 first \in HighestWorkHashes(rec.heads)}

\* an event (b, rpc) of one of the upstreams rpcs is received and processed
ProcessBlockFromRpcOf(rpcs) ==
    /\ tracker = "running"
    /\ \E b \in Blocks, rpc \in rpcs :
          \E out \in EventOutcomes(TrackerState, b, rpc) :
              /\ connection_heads' = out.heads
              /\ SetGraph(out.g)
              /\ synced_connections' = out.synced
              /\ head_block_sender' = out.sender
              /\ tracker' = out.tracker
              /\ last_event' = out.event
    /\ UNCHANGED <<config, watch_receivers, callVars, tierVars, statVars>>

\* the event (b, rpc) is received and processed
ProcessBlockFromRpc == ProcessBlockFromRpcOf(RpcNames)

\* the same, while only the first upstream of the pool reports its heads
ProcessBlockFromFirstRpc == ProcessBlockFromRpcOf({Rpcs[1]})

\* the last receiver of the head watch channel is dropped
DropWatchReceivers ==
    /\ watch_receivers
    /\ watch_receivers' = FALSE
    /\ UNCHANGED <<config, connection_heads, synced_connections, head_block_sender,
                   tracker, last_event, graphVars, callVars, tierVars, statVars>>

\* every sender of the block channel is dropped: recv_async fails and
\* process_incoming_blocks returns Ok
CloseBlockChannel ==
    /\ tracker = "running"
    /\ tracker' = "closed"
    /\ UNCHANGED <<config, connection_heads, synced_connections, head_block_sender,
                   watch_receivers, last_event, graphVars, callVars, tierVars, statVars>>

InitTrackerWith(cfgs) ==
    /\ config \in cfgs
    /\ connection_heads = [r \in RpcNames |-> NoHead]
    /\ synced_connections = EmptySynced
    /\ head_block_sender = NoHash
    /\ watch_receivers = TRUE
    /\ tracker = "running"
    /\ last_event = Event("none", None, 0, "none")

InitTracker == InitTrackerWith(Configs)

\* the tracker before any event, for the runs of the provider tier
QuorumConfig == [min_sum_soft_limit |-> 20, min_synced_rpcs |-> 2]
SingleConfig == [min_sum_soft_limit |-> 10, min_synced_rpcs |-> 1]
InitIdleTracker == InitTrackerWith({QuorumConfig})

NextTracker ==
    \/ ProcessBlockFromRpc
    \/ DropWatchReceivers
    \/ CloseBlockChannel

----------------------------------------------------------------------------
(* save_block and cannonical_block, step by step, by concurrent callers *)

Threads == {"t1", "t2"}
NoThread == "-"
NoBlock == Blk(None, None, "-", None)

Idle(ret) == [pc |-> "idle", block |-> NoBlock, heaviest |-> FALSE, ret |-> ret]
Running(pc, b, heaviest) == [pc |-> pc, block |-> b, heaviest |-> heaviest, ret |-> "running"]

\* lines 42-47: save_block(b, heaviest_chain) is entered
EnterSaveBlock(b, heaviest) ==
    IF ~IsComplete(b) THEN Idle("IncompleteBlock")
    ELSE Running(IF heaviest THEN "numbers" ELSE "contains_key", b, heaviest)

\* block(hash, rpc) misses the cache, fetches the block and saves it; the
\* tracker saves the head block of an event: save_block(b, false)
CallSaveBlock(t) ==
    /\ call[t].pc = "idle"
    /\ \E b \in Blocks :
          /\ b.hash # None => b.hash[1] \notin block_hashes
          /\ call' = [call EXCEPT ![t] = EnterSaveBlock(b, FALSE)]
    /\ UNCHANGED <<graphVars, graph_lock, nonCallVars>>

\* the head number that cannonical_block reads (head_block_num())
HeadBlockNum ==
    IF synced_connections.head_block_id = None THEN None
    ELSE Some(synced_connections.head_block_id[1].num)

\* lines 166-189: cannonical_block(num) up to the request: what it returns
\* (a cache hit on a hash that block_hashes lacks panics in .expect), or
\* "request" when it goes on to ask an upstream
CannonicalBlockUpToRequest(num) ==
    IF block_numbers[num] # NoHash
    THEN IF block_numbers[num] \in block_hashes THEN "Ok" ELSE "panic"
    ELSE IF HeadBlockNum = None THEN "NoServers"
    ELSE IF num > HeadBlockNum[1] THEN "FutureBlock"
    ELSE "request"

\* the blocks an upstream can answer eth_getBlockByNumber(num) with
FetchableBlocks(num) == {x \in Blocks : x.number = Some(num) /\ x.hash # None}

CallCannonicalBlock(t) ==
    /\ call[t].pc = "idle"
    /\ \E num \in BlockNums :
          LET ret == CannonicalBlockUpToRequest(num)
          IN  IF ret # "request"
              THEN call' = [call EXCEPT ![t] = Idle(ret)]
              ELSE \E b \in FetchableBlocks(num) :
                      call' = [call EXCEPT ![t] = Running("fetched", b, TRUE)]
    /\ UNCHANGED <<graphVars, graph_lock, nonCallVars>>

\* lines 200-209: the response has arrived: save_block(block, true)
FetchedBlock(t) ==
    /\ call[t].pc = "fetched"
    /\ call' = [call EXCEPT ![t] = EnterSaveBlock(call[t].block, TRUE)]
    /\ UNCHANGED <<graphVars, graph_lock, nonCallVars>>

\* lines 49-63
StepNumbers(t) ==
    /\ call[t].pc = "numbers"
    /\ block_numbers' = NumbersUpsert(block_numbers, call[t].block)
    /\ call' = [call EXCEPT ![t].pc = "contains_key"]
    /\ UNCHANGED <<block_hashes, graph_nodes, graph_edges, graph_lock, nonCallVars>>

\* lines 65-68
StepContainsKey(t) ==
    /\ call[t].pc = "contains_key"
    /\ call' = [call EXCEPT ![t] = IF call[t].block.hash[1] \in block_hashes
                                   THEN Idle("Ok")
                                   ELSE [call[t] EXCEPT !.pc = "write"]]
    /\ UNCHANGED <<graphVars, graph_lock, nonCallVars>>

\* lines 70-76: the write lock is taken; the node may be there already
StepWriteLock(t) ==
    /\ call[t].pc = "write"
    /\ graph_lock = NoThread
    /\ IF call[t].block.hash[1] \in graph_nodes
       THEN /\ call' = [call EXCEPT ![t] = Idle("Ok")]
            /\ UNCHANGED graph_lock
       ELSE /\ call' = [call EXCEPT ![t].pc = "insert"]
            /\ graph_lock' = t
    /\ UNCHANGED <<graphVars, nonCallVars>>

\* lines 79-84: block_hashes.insert; an overwritten entry ends the call
StepInsert(t) ==
    /\ call[t].pc = "insert"
    /\ block_hashes' = block_hashes \cup {call[t].block.hash[1]}
    /\ IF call[t].block.hash[1] \in block_hashes
       THEN /\ call' = [call EXCEPT ![t] = Idle("Ok")]
            /\ graph_lock' = NoThread
       ELSE /\ call' = [call EXCEPT ![t].pc = "add_edge"]
            /\ UNCHANGED graph_lock
    /\ UNCHANGED <<block_numbers, graph_nodes, graph_edges, nonCallVars>>

\* lines 89-98: add_node, add_edge, the lock is released
StepAddEdge(t) ==
    /\ call[t].pc = "add_edge"
    /\ graph_nodes' = graph_nodes \cup {call[t].block.hash[1], call[t].block.parent_hash}
    /\ graph_edges' = graph_edges \cup {<<call[t].block.parent_hash, call[t].block.hash[1]>>}
    /\ graph_lock' = NoThread
    /\ call' = [call EXCEPT ![t] = Idle("Ok")]
    /\ UNCHANGED <<block_hashes, block_numbers, nonCallVars>>

\* cannonical_block(num) run to its end by one caller, no other caller
\* being inside save_block
Caller == CHOOSE t \in Threads : TRUE

CannonicalBlock ==
    /\ \A t \in Threads : call[t].pc = "idle"
    /\ \E num \in BlockNums :
          LET ret == CannonicalBlockUpToRequest(num)
          IN  IF ret # "request"
              THEN /\ call' = [call EXCEPT ![Caller] = Idle(ret)]
                   /\ UNCHANGED graphVars
              ELSE \E b \in FetchableBlocks(num) :
                      LET sb == SaveBlock(Graph, b, TRUE)
                      IN  /\ SetGraph(sb.g)
                          /\ call' = [call EXCEPT ![Caller] =
                                        Idle(IF sb.ok THEN "Ok" ELSE "IncompleteBlock")]
    /\ UNCHANGED <<graph_lock, nonCallVars>>

InitCalls ==
    /\ graph_lock = NoThread
    /\ call = [t \in Threads |-> Idle("none")]

\* the state after the events (a, A), (a, B), (a, C): the consensus head is
\* a (number 10) and only a is stored
InitAtHead ==
    /\ config = QuorumConfig
    /\ connection_heads = [r \in RpcNames |-> "a"]
    /\ synced_connections = [head_block_id |-> Some(BlockId(BlockOf("a"))),
                             conns |-> RpcNames]
    /\ head_block_sender = "a"
    /\ watch_receivers = TRUE
    /\ tracker = "running"
    /\ last_event = Event("consensus", Some(BlockId(BlockOf("a"))), 0, "inserted")
    /\ block_hashes = {"a"}
    /\ block_numbers = [n \in BlockNums |-> NoHash]
    /\ graph_nodes = {"p", "a"}
    /\ graph_edges = {<<"p", "a">>}

NextGraph ==
    \E t \in Threads :
        \/ CallSaveBlock(t)
        \/ CallCannonicalBlock(t)
        \/ FetchedBlock(t)
        \/ StepNumbers(t)
        \/ StepContainsKey(t)
        \/ StepWriteLock(t)
        \/ StepInsert(t)
        \/ StepAddEdge(t)

----------------------------------------------------------------------------
(* Stats aggregator: records, aggregates and the two-level cache *)

\* StatEmitter.period_seconds, and the outer cache's time to live
PeriodSeconds == 2
TtlMultiplier == 3
\* a time to live of one period
TtlOnePeriod == PeriodSeconds

TtlSeconds == PeriodSeconds * TtlMultiplier

\* the clock runs until the first bucket's time to live has passed
MaxStatClock == TtlSeconds
StatPeriods == {t \in 0..MaxStatClock : t % PeriodSeconds = 0}

\* the aggregate_stat tasks that aggregate_stats_loop spawns, in spawn order:
\* one request completes while the flush loop runs
StatTaskIds == <<"s1">>

\* what the requests measured: a cache hit and a cache miss of one key, and
\* an error response of the same rpc key and method
StatShapes ==
    { [rpc_key_id |-> 1, method |-> "eth_call", error_response |-> FALSE,
       archive_request |-> FALSE, request_bytes |-> 1, backend_requests |-> 0,
       response_bytes |-> 2, response_millis |-> 1],
      [rpc_key_id |-> 1, method |-> "eth_call", error_response |-> FALSE,
       archive_request |-> FALSE, request_bytes |-> 1, backend_requests |-> 2,
       response_bytes |-> 3, response_millis |-> 2],
      [rpc_key_id |-> 1, method |-> "eth_call", error_response |-> TRUE,
       archive_request |-> FALSE, request_bytes |-> 1, backend_requests |-> 1,
       response_bytes |-> 1, response_millis |-> 1] }

\* ProxyResponseStat::new for a request that started at second start
ProxyResponseStat(shape, start) ==
    [rpc_key_id |-> shape.rpc_key_id,
     method |-> shape.method,
     archive_request |-> shape.archive_request,
     period_seconds |-> PeriodSeconds,
     period_timestamp |-> (start \div PeriodSeconds) * PeriodSeconds,
     request_bytes |-> shape.request_bytes,
     backend_requests |-> shape.backend_requests,
     error_response |-> shape.error_response,
     response_bytes |-> shape.response_bytes,
     response_millis |-> shape.response_millis]

\* UserProxyResponseKey: (rpc_key_id, method, error_response)
UserProxyResponseKey(stat) == <<stat.rpc_key_id, stat.method, stat.error_response>>
StatKeys == {UserProxyResponseKey(shape) : shape \in StatShapes}

\* the atomic fields of ProxyResponseAggregate
CounterFields == {"frontend_requests", "backend_requests", "backend_retries",
                  "no_servers", "cache_misses", "cache_hits",
                  "sum_request_bytes", "sum_response_bytes", "sum_response_millis"}

\* the aggregate the vacant entry is filled with; histograms is the number
\* of samples recorded
ProxyResponseAggregate(stat) ==
    [period_timestamp |-> stat.period_timestamp,
     archive_request |-> stat.archive_request,
     counters |-> [f \in CounterFields |-> 0],
     histograms |-> 0]

\* an entry of the outer cache is gone once its time to live has passed
Expired(c) == stat_now >= user_caches[c].created + TtlSeconds

\* a request that started at one of the seconds starts completes and sends
\* its record to the ingest loop; at most records requests complete
EmitStatWith(records, starts) ==
    /\ aggregate_loop # "panicked"
    /\ Len(stat_tasks) + Len(aggregate_rx) < records
    /\ \E shape \in StatShapes, start \in starts :
          aggregate_rx' = Append(aggregate_rx, ProxyResponseStat(shape, start))
    /\ UNCHANGED <<stat_now, aggregate_loop, stat_tasks, aggregated_proxy_responses,
                   user_caches, aggregates, save_rx, saver, store, save_errors,
                   nonStatVars>>

\* a request completes within the second it started in
EmitStat == EmitStatWith(Len(StatTaskIds), {stat_now})

\* aggregate_stats_loop receives a record and spawns its aggregate_stat task
AggregateStatsLoopRecv ==
    /\ aggregate_loop \in {"running", "signalled"}
    /\ aggregate_rx # <<>>
    /\ stat_tasks' = Append(stat_tasks, [pc |-> "get_with", stat |-> Head(aggregate_rx),
                                         user_cache |-> 0, user_aggregate |-> 0])
    /\ aggregate_rx' = Tail(aggregate_rx)
    /\ UNCHANGED <<stat_now, aggregate_loop, aggregated_proxy_responses, user_caches,
                   aggregates, save_rx, saver, store, save_errors, nonStatVars>>

\* the shutdown signal is broadcast
ShutdownBroadcast ==
    /\ aggregate_loop = "running"
    /\ aggregate_loop' = "signalled"
    /\ UNCHANGED <<stat_now, aggregate_rx, stat_tasks, aggregated_proxy_responses,
                   user_caches, aggregates, save_rx, saver, store, save_errors,
                   nonStatVars>>

\* the sequences that list every element of S once
RECURSIVE Orders(_)
Orders(S) ==
    IF S = {} THEN {<<>>}
    ELSE UNION {{<<x>> \o o : o \in Orders(S \ {x})} : x \in S}

\* aggregate_stats_loop receives the shutdown signal: it leaves the loop,
\* invalidates every outer entry (the eviction listener sends each inner map
\* to the flush queue) and reaches todo!(), which panics
AggregateStatsLoopShutdown ==
    /\ aggregate_loop = "signalled"
    /\ aggregate_loop' = "panicked"
    /\ \E o \in Orders({p \in StatPeriods : aggregated_proxy_responses[p] # 0}) :
          save_rx' = save_rx \o [j \in DOMAIN o |-> aggregated_proxy_responses[o[j]]]
    /\ aggregated_proxy_responses' = [p \in StatPeriods |-> 0]
    /\ UNCHANGED <<stat_now, aggregate_rx, stat_tasks, user_caches, aggregates,
                   saver, store, save_errors, nonStatVars>>

\* the time to live of an outer entry has passed: the eviction listener sends
\* its inner map to the flush queue
Expire ==
    /\ \E p \in StatPeriods :
          /\ aggregated_proxy_responses[p] # 0
          /\ Expired(aggregated_proxy_responses[p])
          /\ save_rx' = Append(save_rx, aggregated_proxy_responses[p])
          /\ aggregated_proxy_responses' = [aggregated_proxy_responses EXCEPT ![p] = 0]
    /\ UNCHANGED <<stat_now, aggregate_rx, aggregate_loop, stat_tasks, user_caches,
                   aggregates, saver, store, save_errors, nonStatVars>>

StatTick ==
    /\ stat_now < MaxStatClock
    /\ stat_now' = stat_now + 1
    /\ UNCHANGED <<aggregate_rx, aggregate_loop, stat_tasks, aggregated_proxy_responses,
                   user_caches, aggregates, save_rx, saver, store, save_errors,
                   nonStatVars>>

----------------------------------------------------------------------------
(* Stats aggregator: aggregate_stat, one step per await point or atomic *)

\* aggregated_proxy_responses.get_with(period_timestamp, Default::default):
\* the live inner map of the period, or a new one; an entry found past its
\* time to live is evicted and replaced
AggregateStatGetWith(i) ==
    /\ i <= Len(stat_tasks)
    /\ stat_tasks[i].pc = "get_with"
    /\ LET p == stat_tasks[i].stat.period_timestamp
           c == aggregated_proxy_responses[p]
           fresh == Len(user_caches) + 1
       IN  IF c # 0 /\ ~Expired(c)
           THEN /\ stat_tasks' = [stat_tasks EXCEPT ![i].pc = "entry",
                                                    ![i].user_cache = c]
                /\ UNCHANGED <<aggregated_proxy_responses, user_caches, save_rx>>
           ELSE /\ stat_tasks' = [stat_tasks EXCEPT ![i].pc = "entry",
                                                    ![i].user_cache = fresh]
                /\ user_caches' = Append(user_caches,
                                         [period_timestamp |-> p,
                                          created |-> stat_now,
                                          entries |-> [k \in StatKeys |-> 0]])
                /\ aggregated_proxy_responses' =
                       [aggregated_proxy_responses EXCEPT ![p] = fresh]
                /\ save_rx' = IF c # 0 THEN Append(save_rx, c) ELSE save_rx
    /\ UNCHANGED <<stat_now, aggregate_rx, aggregate_loop, aggregates, saver, store,
                   save_errors, nonStatVars>>

\* an entry that is filled with a new aggregate whether vacant or occupied
AggregateStatEntryInsert(i) ==
    /\ i <= Len(stat_tasks)
    /\ stat_tasks[i].pc = "entry"
    /\ LET stat == stat_tasks[i].stat
           c == stat_tasks[i].user_cache
           key == UserProxyResponseKey(stat)
           fresh == Len(aggregates) + 1
       IN  /\ stat_tasks' = [stat_tasks EXCEPT ![i].pc = "frontend_requests",
                                                ![i].user_aggregate = fresh]
           /\ aggregates' = Append(aggregates, ProxyResponseAggregate(stat))
           /\ user_caches' = [user_caches EXCEPT ![c].entries[key] = fresh]
    /\ UNCHANGED <<stat_now, aggregate_rx, aggregate_loop, aggregated_proxy_responses,
                   save_rx, saver, store, save_errors, nonStatVars>>

\* user_cache.entry(key): the aggregate of the key, or a new one at zero
AggregateStatEntry(i) ==
    /\ i <= Len(stat_tasks)
    /\ stat_tasks[i].pc = "entry"
    /\ LET stat == stat_tasks[i].stat
           c == stat_tasks[i].user_cache
           key == UserProxyResponseKey(stat)
           a == user_caches[c].entries[key]
           fresh == Len(aggregates) + 1
       IN  IF a # 0
           THEN /\ stat_tasks' = [stat_tasks EXCEPT ![i].pc = "frontend_requests",
                                                    ![i].user_aggregate = a]
                /\ UNCHANGED <<user_caches, aggregates>>
           ELSE /\ stat_tasks' = [stat_tasks EXCEPT ![i].pc = "frontend_requests",
                                                    ![i].user_aggregate = fresh]
                /\ aggregates' = Append(aggregates, ProxyResponseAggregate(stat))
                /\ user_caches' = [user_caches EXCEPT ![c].entries[key] = fresh]
    /\ UNCHANGED <<stat_now, aggregate_rx, aggregate_loop, aggregated_proxy_responses,
                   save_rx, saver, store, save_errors, nonStatVars>>

\* the fetch_add the task is at: the field, the amount, and the next position
FetchAddStep(pc, stat) ==
    CASE pc = "frontend_requests" ->
             [field |-> "frontend_requests", by |-> 1, next |-> "cache"]
      [] pc = "cache" ->
             IF stat.backend_requests = 0
             THEN [field |-> "cache_hits", by |-> 1, next |-> "sum_request_bytes"]
             ELSE [field |-> "cache_misses", by |-> 1, next |-> "backend_requests"]
      [] pc = "backend_requests" ->
             [field |-> "backend_requests", by |-> stat.backend_requests,
              next |-> "sum_request_bytes"]
      [] pc = "sum_request_bytes" ->
             [field |-> "sum_request_bytes", by |-> stat.request_bytes,
              next |-> "sum_response_bytes"]
      [] pc = "sum_response_bytes" ->
             [field |-> "sum_response_bytes", by |-> stat.response_bytes,
              next |-> "sum_response_millis"]
      [] pc = "sum_response_millis" ->
             [field |-> "sum_response_millis", by |-> stat.response_millis,
              next |-> "histograms"]

FetchAddSteps == {"frontend_requests", "cache", "backend_requests",
                  "sum_request_bytes", "sum_response_bytes", "sum_response_millis"}

\* one fetch_add on the aggregate the task holds
AggregateStatFetchAdd(i) ==
    /\ i <= Len(stat_tasks)
    /\ stat_tasks[i].pc \in FetchAddSteps
    /\ LET step == FetchAddStep(stat_tasks[i].pc, stat_tasks[i].stat)
           a == stat_tasks[i].user_aggregate
       IN  /\ aggregates' = [aggregates EXCEPT ![a].counters[step.field] = @ + step.by]
           /\ stat_tasks' = [stat_tasks EXCEPT ![i].pc = step.next]
    /\ UNCHANGED <<stat_now, aggregate_rx, aggregate_loop, aggregated_proxy_responses,
                   user_caches, save_rx, saver, store, save_errors, nonStatVars>>

\* under the histograms lock: record the three values
AggregateStatRecord(i) ==
    /\ i <= Len(stat_tasks)
    /\ stat_tasks[i].pc = "histograms"
    /\ aggregates' = [aggregates EXCEPT ![stat_tasks[i].user_aggregate].histograms = @ + 1]
    /\ stat_tasks' = [stat_tasks EXCEPT ![i].pc = "done"]
    /\ UNCHANGED <<stat_now, aggregate_rx, aggregate_loop, aggregated_proxy_responses,
                   user_caches, save_rx, saver, store, save_errors, nonStatVars>>

----------------------------------------------------------------------------
(* Stats aggregator: save_stats_loop *)

\* the order in which save_stats_loop loads the atomic fields
LoadOrder == <<"frontend_requests", "backend_requests", "backend_retries",
               "no_servers", "cache_misses", "cache_hits", "sum_request_bytes",
               "sum_response_millis", "sum_response_bytes">>

SaverAt(pc, c, start, visited, key, n, loaded, samples) ==
    [pc |-> pc, cache |-> c, start_keys |-> start, visited |-> visited, key |-> key,
     n |-> n, loaded |-> loaded, samples |-> samples]

NoKey == <<>>
NothingLoaded == [f \in CounterFields |-> 0]
SaverWaiting == SaverAt("recv", 0, {}, {}, NoKey, 0, NothingLoaded, 0)

KeysOf(c) == {k \in StatKeys : user_caches[c].entries[k] # 0}

\* save_rx.recv_async(): the next evicted inner map, and the start of x.iter()
SaveStatsLoopRecv ==
    /\ saver.pc = "recv"
    /\ save_rx # <<>>
    /\ saver' = SaverAt("iter", Head(save_rx), KeysOf(Head(save_rx)), {}, NoKey, 0,
                        NothingLoaded, 0)
    /\ save_rx' = Tail(save_rx)
    /\ UNCHANGED <<stat_now, aggregate_rx, aggregate_loop, stat_tasks,
                   aggregated_proxy_responses, user_caches, aggregates, store,
                   save_errors, nonStatVars>>

\* x.iter() yields an entry not visited yet, or ends; an entry inserted while
\* the iteration runs may be yielded or missed
SaveStatsLoopIter ==
    /\ saver.pc = "iter"
    /\ \/ \E k \in KeysOf(saver.cache) \ saver.visited :
             saver' = [saver EXCEPT !.pc = "load", !.key = k, !.n = 1,
                                    !.loaded = NothingLoaded, !.samples = 0]
       \/ /\ saver.start_keys \subseteq saver.visited
          /\ saver' = SaverWaiting
    /\ UNCHANGED <<stat_now, aggregate_rx, aggregate_loop, stat_tasks,
                   aggregated_proxy_responses, user_caches, aggregates, save_rx,
                   store, save_errors, nonStatVars>>

\* one v.<field>.load(Ordering::Acquire)
SaveStatsLoopLoad ==
    /\ saver.pc = "load"
    /\ LET f == LoadOrder[saver.n]
           a == user_caches[saver.cache].entries[saver.key]
       IN  saver' = [saver EXCEPT !.loaded[f] = aggregates[a].counters[f],
                                  !.n = @ + 1,
                                  !.pc = IF saver.n = Len(LoadOrder)
                                         THEN "histograms" ELSE "load"]
    /\ UNCHANGED <<stat_now, aggregate_rx, aggregate_loop, stat_tasks,
                   aggregated_proxy_responses, user_caches, aggregates, save_rx,
                   store, save_errors, nonStatVars>>

\* under the histograms lock: read the quantiles of the three histograms
SaveStatsLoopHistograms ==
    /\ saver.pc = "histograms"
    /\ LET a == user_caches[saver.cache].entries[saver.key]
       IN  saver' = [saver EXCEPT !.samples = aggregates[a].histograms, !.pc = "save"]
    /\ UNCHANGED <<stat_now, aggregate_rx, aggregate_loop, stat_tasks,
                   aggregated_proxy_responses, user_caches, aggregates, save_rx,
                   store, save_errors, nonStatVars>>

\* the rpc_accounting row built from the loaded values
ActiveModel(k, v, loaded, samples) ==
    [period_timestamp |-> v.period_timestamp,
     key |-> k,
     archive_request |-> v.archive_request,
     counters |-> loaded,
     samples |-> samples]

\* a save whose error makes the loop give up the inner map it is writing
SaveStatsLoopSaveOrAbandon ==
    /\ saver.pc = "save"
    /\ LET a == user_caches[saver.cache].entries[saver.key]
           row == ActiveModel(saver.key, aggregates[a], saver.loaded, saver.samples)
       IN  \E saved \in BOOLEAN :
              IF saved
              THEN /\ store' = Append(store, row)
                   /\ saver' = [saver EXCEPT !.pc = "iter", !.visited = @ \cup {saver.key}]
                   /\ UNCHANGED save_errors
              ELSE /\ save_errors' = save_errors + 1
                   /\ saver' = SaverWaiting
                   /\ UNCHANGED store
    /\ UNCHANGED <<stat_now, aggregate_rx, aggregate_loop, stat_tasks,
                   aggregated_proxy_responses, user_caches, aggregates, save_rx,
                   nonStatVars>>

\* stat.save(&db_conn): the row is stored, or the error is logged; either way
\* the loop goes on with the next entry
SaveStatsLoopSave ==
    /\ saver.pc = "save"
    /\ LET a == user_caches[saver.cache].entries[saver.key]
           row == ActiveModel(saver.key, aggregates[a], saver.loaded, saver.samples)
       IN  \E saved \in BOOLEAN :
              IF saved
              THEN /\ store' = Append(store, row)
                   /\ UNCHANGED save_errors
              ELSE /\ save_errors' = save_errors + 1
                   /\ UNCHANGED store
    /\ saver' = [saver EXCEPT !.pc = "iter", !.visited = @ \cup {saver.key}]
    /\ UNCHANGED <<stat_now, aggregate_rx, aggregate_loop, stat_tasks,
                   aggregated_proxy_responses, user_caches, aggregates, save_rx,
                   nonStatVars>>

\* who holds an Arc of the StatEmitter (spawn, lines 177-198): the flush loop
\* holds its self until it returns, the ingest loop until it ends, each
\* aggregate_stat task its clone until it is done
EmitterHolders ==
    {"save_stats_loop"}
    \cup (IF aggregate_loop # "panicked" THEN {"aggregate_stats_loop"} ELSE {})
    \cup {StatTaskIds[i] : i \in {j \in DOMAIN stat_tasks : stat_tasks[j].pc # "done"}}

\* save_rx.recv_async() fails once every sender is dropped; the one sender
\* save_tx is owned by the eviction listener of the cache, a field of the
\* StatEmitter (lines 149-171)
SaveRxDisconnected == EmitterHolders = {}

InitStats ==
    /\ stat_now = 0
    /\ aggregate_rx = <<>>
    /\ aggregate_loop = "running"
    /\ stat_tasks = <<>>
    /\ aggregated_proxy_responses = [p \in StatPeriods |-> 0]
    /\ user_caches = <<>>
    /\ aggregates = <<>>
    /\ save_rx = <<>>
    /\ saver = SaverWaiting
    /\ store = <<>>
    /\ save_errors = 0

NextStats ==
    \/ EmitStat
    \/ AggregateStatsLoopRecv
    \/ ShutdownBroadcast
    \/ AggregateStatsLoopShutdown
    \/ Expire
    \/ StatTick
    \/ \E i \in DOMAIN StatTaskIds :
          \/ AggregateStatGetWith(i)
          \/ AggregateStatEntry(i)
          \/ AggregateStatFetchAdd(i)
          \/ AggregateStatRecord(i)
    \/ SaveStatsLoopRecv
    \/ SaveStatsLoopIter
    \/ SaveStatsLoopLoad
    \/ SaveStatsLoopHistograms
    \/ SaveStatsLoopSave

----------------------------------------------------------------------------
(* Specifications *)

vars == <<tierVars, graphVars, callVars, trackerVars, statVars>>

Init == InitTier /\ InitGraph /\ InitCalls /\ InitTracker /\ InitStats

InitSelect == InitTierOf({Limit, LimitEach}) /\ InitGraph /\ InitCalls /\ InitIdleTracker /\ InitStats

\* the refresh of the synced list, under changing active counts
NextRefresh == UpdateSyncedRpcs

InitRefreshAll == InitRefresh /\ InitGraph /\ InitCalls /\ InitIdleTracker /\ InitStats

SpecRefresh == InitRefreshAll /\ [][NextRefresh]_vars

\* the selection walks, under refreshes, releases and the passing of time
NextSelect ==
    \/ RefreshSynced
    \/ NextUpstreamServer
    \/ GetUpstreamServers
    \/ ReleaseHandle
    \/ Tick

SpecSelect == InitSelect /\ [][NextSelect]_vars

\* callers of save_block and cannonical_block running concurrently, after
\* the tracker has published the head a
InitGraphAtHead == InitTier /\ InitCalls /\ InitAtHead /\ InitStats

SpecGraph == InitGraphAtHead /\ [][NextGraph]_vars

\* every caller is inside save_block with the same complete block and flag,
\* on the empty graph or on the graph at head a
InitRacingCalls ==
    /\ graph_lock = NoThread
    /\ \E b \in {x \in Blocks : IsComplete(x)}, f \in BOOLEAN :
          call = [t \in Threads |-> EnterSaveBlock(b, f)]

InitRace ==
    /\ InitTier /\ InitStats /\ InitRacingCalls
    /\ \/ InitGraph /\ InitIdleTracker
       \/ InitAtHead

NextRace ==
    \E t \in Threads :
        \/ StepNumbers(t)
        \/ StepContainsKey(t)
        \/ StepWriteLock(t)
        \/ StepInsert(t)
        \/ StepAddEdge(t)

SpecRace == InitRace /\ [][NextRace]_vars

\* the tracker consuming the events of the upstreams
SpecTracker == Init /\ [][NextTracker]_vars

\* the tracker consuming the events of one upstream while callers ask for
\* blocks by number
InitChain == InitTier /\ InitGraph /\ InitCalls /\ InitTrackerWith({SingleConfig}) /\ InitStats

NextChain ==
    \/ ProcessBlockFromFirstRpc
    \/ CannonicalBlock

SpecChain == InitChain /\ [][NextChain]_vars

\* the stats aggregator: records emitted, aggregated by concurrent tasks,
\* evicted and flushed
InitStatsAll == InitTier /\ InitGraph /\ InitCalls /\ InitIdleTracker /\ InitStats

SpecStats == InitStatsAll /\ [][NextStats]_vars

\* the same, where the clock keeps running up to its bound and the cache
\* keeps evicting the entries whose time to live has passed
SpecStatsFair == SpecStats /\ WF_vars(StatTick) /\ WF_vars(Expire)

\* the stats aggregator with two requests, of which one may complete long
\* after it started; the tasks and the flush loop run one at a time, each to
\* its end (to its next recv for the flush loop), and the clock only
\* advances once every record sent has been aggregated
\* the aggregate_stat tasks, in spawn order
LateTaskIds == <<"s1", "s2">>
TaskRunning(i) == i <= Len(stat_tasks) /\ stat_tasks[i].pc \notin {"get_with", "done"}
Quiet == saver.pc = "recv" /\ \A i \in DOMAIN LateTaskIds : ~TaskRunning(i)

EmitLateStat == Quiet /\ EmitStatWith(Len(LateTaskIds), 0..stat_now)
QuietRecv == Quiet /\ AggregateStatsLoopRecv
QuietExpire == Quiet /\ Expire
Drained ==
    aggregate_rx = <<>> /\ \A i \in DOMAIN stat_tasks : stat_tasks[i].pc = "done"
QuietTick == Quiet /\ Drained /\ StatTick
QuietGetWith == Quiet /\ \E i \in DOMAIN LateTaskIds : AggregateStatGetWith(i)
QuietSaveRecv == Quiet /\ SaveStatsLoopRecv
QuietBroadcast == Quiet /\ ShutdownBroadcast
QuietShutdown == Quiet /\ AggregateStatsLoopShutdown

NextBuckets ==
    \/ EmitLateStat
    \/ QuietRecv
    \/ QuietExpire
    \/ QuietTick
    \/ QuietGetWith
    \/ \E i \in DOMAIN LateTaskIds :
          \/ AggregateStatEntry(i)
          \/ AggregateStatFetchAdd(i)
          \/ AggregateStatRecord(i)
    \/ QuietSaveRecv
    \/ QuietBroadcast
    \/ QuietShutdown
    \/ SaveStatsLoopIter
    \/ SaveStatsLoopLoad
    \/ SaveStatsLoopHistograms
    \/ SaveStatsLoopSave

SpecBuckets == InitStatsAll /\ [][NextBuckets]_vars

\* two aggregate_stat tasks of requests completed in the same second, their
\* steps interleaved in every way; no flush
EmitTwoStats == EmitStatWith(Len(LateTaskIds), {stat_now})

NextTasks ==
    \/ EmitTwoStats
    \/ AggregateStatsLoopRecv
    \/ \E i \in DOMAIN LateTaskIds :
          \/ AggregateStatGetWith(i)
          \/ AggregateStatEntry(i)
          \/ AggregateStatFetchAdd(i)
          \/ AggregateStatRecord(i)

SpecTasks == InitStatsAll /\ [][NextTasks]_vars

----------------------------------------------------------------------------
(* Claims about the provider tier *)

Quiesced == \A r \in RpcNames : held[r] = 0

\* C1: every successful try_inc_active_requests of the two selection walks is
\* paired with exactly one decrement: whenever no handed-out handle is
\* outstanding, every active-request counter is 0 (and at any time a counter
\* equals the number of outstanding handles of its connection).
C1_CountersReturnToZero ==
    /\ Quiesced => \A r \in RpcNames : active_requests[r] = 0
    /\ \A r \in RpcNames : active_requests[r] = held[r]

\* a quiesced state after get_upstream_servers handed out several handles
C1_Witness ==
    /\ Quiesced
    /\ last_sel.op = "all" /\ last_sel.ok /\ Len(last_sel.names) >= 2
    /\ limiter_tat["A"] # NoTat

StatusRank(st) == CASE st.kind = "Synced" -> 0 [] st.kind = "Behind" -> 1 [] OTHER -> 2

\* C9: the refresh orders the pool Synced before Behind before Unknown, and
\* among Synced (and among Behind) the higher head number first.
C9_SortedBestFirst ==
    refreshed =>
      \A i, j \in DOMAIN available_rpcs :
        i < j =>
          LET a == sync_status[available_rpcs[i]]
              b == sync_status[available_rpcs[j]]
          IN  /\ StatusRank(a) <= StatusRank(b)
              /\ (a.kind = b.kind /\ a.kind # "Unknown") => a.num >= b.num

IsPrefix(s, t) == Len(s) <= Len(t) /\ \A i \in DOMAIN s : s[i] = t[i]

\* C10: after a refresh the published synced_rpcs is a prefix of the pool as
\* sorted by that refresh and holds only upstreams whose status was Synced.
C10_PublishedIsSyncedPrefix ==
    refreshed =>
      /\ IsPrefix(synced_rpcs, available_rpcs)
      /\ \A i \in DOMAIN synced_rpcs : sync_status[synced_rpcs[i]].kind = "Synced"

\* a refresh that published the whole pool, with two different head numbers
C10_Witness ==
    /\ refreshed
    /\ Len(synced_rpcs) = Len(Rpcs)
    /\ sync_status[synced_rpcs[1]].num # sync_status[synced_rpcs[Len(Rpcs)]].num

\* C28: after a refresh the upstreams of the published synced_rpcs are
\* exactly those whose status in that refresh is Synced, whatever the status
\* of the others.
C28_PublishedIsAllSynced ==
    refreshed =>
        {synced_rpcs[i] : i \in DOMAIN synced_rpcs} =
            {r \in RpcNames : sync_status[r].kind = "Synced"}

\* try_inc_active_requests of r, called in the current state, is denied
Denied(r) ==
    ~TryIncActiveRequests(r, Conn(r, limiter_tat, active_requests), now).ok

\* the NotUntil that the denied try_inc_active_requests of r returns
NotUntilOf(r) ==
    TryIncActiveRequests(r, Conn(r, limiter_tat, active_requests), now).not_until

\* the positions of the snapshot whose upstream admits
Admitting == {i \in DOMAIN synced_rpcs : ~Denied(synced_rpcs[i])}

\* the counters after one more request on each upstream of the positions I
ActiveAfter(I) ==
    [r \in RpcNames |->
        active_requests[r] + Cardinality({i \in I : synced_rpcs[i] = r})]

MinOf(S) == CHOOSE x \in S : \A y \in S : x <= y

\* C11: in every reachable state, a next_upstream_server that succeeds returns
\* the first upstream, in synced_rpcs order, whose try_inc_active_requests
\* succeeds: every upstream before it was denied, and its counter alone is
\* incremented.
C11_FirstAdmittingWins ==
    LET res == NextUpstreamServerResult(synced_rpcs, limiter_tat, active_requests)
    IN  res.ok =>
          \E i \in Admitting :
              /\ res.names = <<synced_rpcs[i]>>
              /\ \A j \in 1..(i - 1) : Denied(synced_rpcs[j])
              /\ res.active = ActiveAfter({i})

\* A (1/s) is first in the snapshot and denies, B was returned; the counters
\* show the handles of both
C11_Witness ==
    /\ Len(synced_rpcs) >= 2 /\ synced_rpcs[1] = "A" /\ synced_rpcs[2] = "B"
    /\ Denied("A")
    /\ last_sel.op = "next" /\ last_sel.ok /\ last_sel.names = <<"B">>
    /\ active_requests["A"] = 1 /\ active_requests["B"] >= 1

\* C12: in every reachable state, next_upstream_server fails without a
\* NotUntil exactly when the snapshot is empty, and fails with a NotUntil
\* exactly when the snapshot is non-empty and every upstream in it denies;
\* the NotUntil is then the minimum of those the walk received.
C12_NoServersOrRateLimited ==
    LET res == NextUpstreamServerResult(synced_rpcs, limiter_tat, active_requests)
    IN  /\ (~res.ok /\ res.earliest = None) <=> synced_rpcs = <<>>
        /\ (~res.ok /\ res.earliest # None) <=>
               (synced_rpcs # <<>> /\ Admitting = {})
        /\ (~res.ok /\ res.earliest # None) =>
               res.earliest[1] = MinOf({NotUntilOf(synced_rpcs[i]) : i \in DOMAIN synced_rpcs})
        /\ ~res.ok => res.active = active_requests /\ res.tat = limiter_tat

\* a call that found every upstream of the snapshot denying, with different
\* NotUntils, and reported the smallest one
C12_Witness ==
    /\ synced_rpcs # <<>>
    /\ Admitting = {}
    /\ \E i, j \in DOMAIN synced_rpcs :
          NotUntilOf(synced_rpcs[i]) < NotUntilOf(synced_rpcs[j])
    /\ last_sel.op = "next" /\ ~last_sel.ok /\ last_sel.earliest # None
    /\ last_sel.earliest[1] =
           MinOf({NotUntilOf(synced_rpcs[i]) : i \in DOMAIN synced_rpcs})

\* C13: in every reachable state, get_upstream_servers returns exactly the
\* upstreams of the snapshot whose try_inc_active_requests succeeds, in synced
\* order, each acquired once; it succeeds when at least one admits, and fails
\* with the minimum NotUntil (none for an empty snapshot) when none admits.
C13_AllAdmittingReturned ==
    LET res == GetUpstreamServersResult(synced_rpcs, limiter_tat, active_requests)
        admitted == SelectSeq(synced_rpcs, LAMBDA r : ~Denied(r))
    IN  /\ res.ok <=> Admitting # {}
        /\ res.names = admitted
        /\ res.active = ActiveAfter(Admitting)
        /\ (~res.ok /\ synced_rpcs # <<>>) =>
               /\ res.earliest # None
               /\ res.earliest[1] =
                      MinOf({NotUntilOf(synced_rpcs[i]) : i \in DOMAIN synced_rpcs})
        /\ (~res.ok /\ synced_rpcs = <<>>) => res.earliest = None

\* a call that was admitted by some upstreams of the snapshot and denied by
\* another
C13_Witness ==
    /\ last_sel.op = "all" /\ last_sel.ok
    /\ 1 <= Len(last_sel.names) /\ Len(last_sel.names) < Len(synced_rpcs)
    /\ \A i \in DOMAIN last_sel.names : active_requests[last_sel.names[i]] >= 1
    /\ \E i \in DOMAIN synced_rpcs :
          /\ Denied(synced_rpcs[i])
          /\ \A j \in DOMAIN last_sel.names : last_sel.names[j] # synced_rpcs[i]

\* C27: an upstream of limit 0 has no rate limiter: in every state reached
\* by acquisitions, releases and clock ticks its try_inc_active_requests
\* succeeds at every clock value, get_upstream_servers returns it whenever
\* the snapshot holds it, and next_upstream_server returns it or an upstream
\* placed before it.
C27_NoLimiterNeverDenies ==
    \A r \in RpcNames :
        limit[r] = 0 =>
            /\ limiter_tat[r] = NoTat
            /\ \A t \in 0..MaxClock :
                   LET a == TryIncActiveRequests(r, Conn(r, limiter_tat, active_requests), t)
                   IN  a.ok /\ a.active = active_requests[r] + 1
            /\ \A i \in DOMAIN synced_rpcs :
                   synced_rpcs[i] = r =>
                       LET all == GetUpstreamServersResult(synced_rpcs, limiter_tat,
                                                           active_requests)
                           one == NextUpstreamServerResult(synced_rpcs, limiter_tat,
                                                           active_requests)
                       IN  /\ all.ok
                           /\ \E j \in DOMAIN all.names : all.names[j] = r
                           /\ one.ok
                           /\ \E j \in 1..i : one.names = <<synced_rpcs[j]>>

\* the upstream C of limit 0 serves two requests acquired within one second,
\* while the upstream A of limit 1 denies
C27_Witness ==
    /\ limit["C"] = 0
    /\ now = 0
    /\ held["C"] >= 2
    /\ \E i \in DOMAIN synced_rpcs : synced_rpcs[i] = "C"
    /\ Denied("A")

\* C37: in every reachable state, a successful next_upstream_server has
\* raised the counter of the returned upstream by 1 and no other counter,
\* and has attempted an acquisition on the upstreams up to the returned one
\* only (the limiter of every later upstream is as before); a failing
\* next_upstream_server or get_upstream_servers leaves every counter as it
\* was.
C37_OneCounterRaised ==
    LET one == NextUpstreamServerResult(synced_rpcs, limiter_tat, active_requests)
        all == GetUpstreamServersResult(synced_rpcs, limiter_tat, active_requests)
    IN  /\ one.ok =>
              \E i \in DOMAIN synced_rpcs :
                  /\ one.names = <<synced_rpcs[i]>>
                  /\ one.active =
                        [r \in RpcNames |->
                            active_requests[r] + IF r = synced_rpcs[i] THEN 1 ELSE 0]
                  /\ one.tried = SubSeq(synced_rpcs, 1, i)
                  /\ \A j \in DOMAIN synced_rpcs :
                        j > i => one.tat[synced_rpcs[j]] = limiter_tat[synced_rpcs[j]]
        /\ ~one.ok => one.active = active_requests
        /\ ~all.ok => all.active = active_requests

\* next_upstream_server returned the second upstream of a snapshot of three:
\* the first one denied, the third one was not asked and serves no request
C37_Witness ==
    /\ Len(synced_rpcs) = 3
    /\ last_sel.op = "next" /\ last_sel.ok
    /\ last_sel.names = <<synced_rpcs[2]>>
    /\ active_requests[synced_rpcs[2]] = 1
    /\ active_requests[synced_rpcs[3]] = 0
    /\ limiter_tat[synced_rpcs[3]] = NoTat

----------------------------------------------------------------------------
(* Claims about the consensus tracker *)

NewHead == synced_connections.head_block_id[1]

\* C4: when an event yields a consensus head, the head block is sent on the
\* watch channel exactly once if the previous SyncedConnections had no head,
\* or a head of another number, or of the same number and another hash; it
\* is not sent if the previous head has the same number and hash.
C4_HeadSentOnChangeOnly ==
    last_event.kind = "consensus" =>
      LET old == last_event.old_head
          changed == \/ old = None
                     \/ old[1].num # NewHead.num
                     \/ old[1].hash # NewHead.hash
      IN  /\ last_event.sends = IF changed THEN 1 ELSE 0
          /\ (changed /\ tracker # "failed") => head_block_sender = NewHead.hash

\* a sibling fork became the head: same number, other hash, sent once
C4_Witness ==
    /\ last_event.kind = "consensus"
    /\ last_event.old_head # None
    /\ last_event.old_head[1].num = NewHead.num
    /\ last_event.old_head[1].hash # NewHead.hash
    /\ last_event.sends = 1
    /\ head_block_sender = NewHead.hash

\* C5: a published SyncedConnections that has a head has conns whose soft
\* limits sum to at least min_sum_soft_limit and that number at least
\* min_synced_rpcs.
C5_PublishedMeetsThresholds ==
    synced_connections.head_block_id # None =>
      /\ SumOver(SoftLimit, synced_connections.conns) >= config.min_sum_soft_limit
      /\ Cardinality(synced_connections.conns) >= config.min_synced_rpcs

\* a head published with the conns gathered from two blocks of the walk
C5_Witness ==
    /\ synced_connections.head_block_id # None
    /\ config.min_synced_rpcs = 2
    /\ \E r1, r2 \in synced_connections.conns :
          connection_heads[r1] # connection_heads[r2]

\* C6: with soft_limit 10 each, min_sum_soft_limit 20 and min_synced_rpcs 2,
\* once A and B have reported a and C has reported its sibling b of higher
\* total difficulty, the published head is their parent p (number 9) with
\* conns {A, B, C}.
C6_SiblingForkPublishesParent ==
    ( /\ config = QuorumConfig
      /\ connection_heads = [r \in RpcNames |-> IF r = "C" THEN "b" ELSE "a"]
      /\ last_event.kind \notin {"none", "error", "panic"}
      /\ tracker = "running" )
    => synced_connections =
          [head_block_id |-> Some([hash |-> "p", num |-> 9]), conns |-> RpcNames]

\* the hashes of h and of its ancestors, up to n steps up, as far as their
\* blocks are stored in block_hashes
RECURSIVE Ancestors(_, _)
Ancestors(h, n) ==
    IF n = 0 \/ h \notin block_hashes \/ BlockOf(h).parent_hash \notin block_hashes
    THEN {h}
    ELSE {h} \cup Ancestors(BlockOf(h).parent_hash, n - 1)

\* C7: every upstream of the published conns has as its recorded head the
\* published head or one of the descendants of it that the walk examined
\* (at most WalkDepth - 1 steps above it).
C7_ConnsHeadsOnHeavyChain ==
    synced_connections.head_block_id # None =>
      \A r \in synced_connections.conns :
        /\ connection_heads[r] # NoHead
        /\ connection_heads[r] \in block_hashes
        /\ NewHead.hash \in Ancestors(connection_heads[r], WalkDepth - 1)

\* the candidate and the ancestors that the walk can reach from it
WalkHashes(h, n) == Ancestors(h, n)

\* the upstreams whose head is the block k or one of the blocks examined
\* before it on the walk from h
OnOrAbove(h, k) ==
    {r \in RpcNames : connection_heads[r] # NoHead
                       /\ connection_heads[r] \in Ancestors(h, WalkDepth - 1)
                       /\ k \in Ancestors(connection_heads[r], WalkDepth - 1)}

\* the block k, reached by the walk from h, passes both thresholds
Qualifies(h, k) ==
    /\ SumOver(SoftLimit, OnOrAbove(h, k)) >= config.min_sum_soft_limit
    /\ Cardinality(OnOrAbove(h, k)) >= config.min_synced_rpcs

\* C8: when an event leaves at least one recorded head and neither the
\* candidate head nor any ancestor the walk reaches passes both thresholds,
\* the SyncedConnections is replaced by the empty one and nothing is sent.
C8_NoQuorumPublishesEmpty ==
    ( /\ last_event.kind \notin {"none", "error", "panic"}
      /\ HeadHashes(connection_heads) # {}
      /\ \A h \in HighestWorkHashes(connection_heads) :
            \A k \in WalkHashes(h, WalkDepth - 1) : ~Qualifies(h, k) )
    => /\ synced_connections = EmptySynced
       /\ last_event.sends = 0

\* a head was published, then an event left two recorded heads without
\* quorum, the parent of the candidate not being stored
C8_Witness ==
    /\ last_event.kind = "empty"
    /\ last_event.old_head # None
    /\ Cardinality(HeadHashes(connection_heads)) >= 2
    /\ \E h \in HighestWorkHashes(connection_heads) :
          BlockOf(h).parent_hash \notin block_hashes
    /\ synced_connections = EmptySynced

NumberZeroBlocks == {b \in Blocks : b.hash # None /\ b.number = Some(0)}

\* C17: an event whose block has number 0 stores nothing (no hash, no node,
\* no edge), removes the entry of its source from connection_heads instead
\* of recording the block as its head, and no block of number 0 is ever the
\* published consensus head.
C17_NumberZeroNeverRecorded ==
    /\ \A b \in NumberZeroBlocks, rpc \in RpcNames :
          LET rec == RecordHead(connection_heads, b, rpc)
          IN  /\ ~rec.save
              /\ rec.heads = [connection_heads EXCEPT ![rpc] = NoHead]
    /\ \A b \in NumberZeroBlocks :
          /\ b.hash[1] \notin block_hashes \cup graph_nodes
          /\ \A e \in graph_edges : b.hash[1] # e[1] /\ b.hash[1] # e[2]
          /\ \A r \in RpcNames : connection_heads[r] # b.hash[1]
          /\ head_block_sender # b.hash[1]
    /\ synced_connections.head_block_id # None =>
          synced_connections.head_block_id[1].num # 0
    /\ last_event.entry = "syncing" =>
          /\ last_event.kind \in {"noheads", "consensus", "empty"}
          /\ \E r \in RpcNames : connection_heads[r] = NoHead

\* an upstream whose head had been published reported a block of number 0:
\* no upstream has a recorded head any more and the graph keeps the one
\* block stored before
C17_Witness ==
    /\ last_event.entry = "syncing"
    /\ last_event.old_head # None
    /\ HeadHashes(connection_heads) = {}
    /\ block_hashes # {}

\* the entry that an event with the block b leaves for its source
HeadAfter(b) ==
    IF b.hash = None \/ b.number = None THEN NoHead
    ELSE IF b.number[1] = 0 THEN NoHead
    ELSE b.hash[1]

\* C29: before any event no upstream has an entry in connection_heads; an
\* event (b, u) sets the entry of u to the hash of b when b has a hash and
\* a number other than 0 and removes it otherwise, and leaves the entry of
\* every other upstream as it was; every step of the tracker that changes
\* connection_heads is such an update, so each entry follows the most
\* recent event of its upstream.
C29_HeadsFollowLastEvent ==
    /\ [](last_event.kind = "none" =>
            \A u \in RpcNames : connection_heads[u] = NoHead)
    /\ [](\A b \in Blocks, u \in RpcNames :
            RecordHead(connection_heads, b, u).heads =
                [connection_heads EXCEPT ![u] = HeadAfter(b)])
    /\ [][\/ connection_heads' = connection_heads
          \/ \E b \in Blocks, u \in RpcNames :
                /\ connection_heads' = [connection_heads EXCEPT ![u] = HeadAfter(b)]
                /\ last_event'.entry =
                       IF HeadAfter(b) # NoHead THEN "inserted"
                       ELSE IF b.hash # None /\ b.number # None THEN "syncing"
                       ELSE "incomplete"]_vars

\* A and C have reported the blocks a and b; the last event, of B, carried
\* a block without hash or number: B has no entry, A and C keep theirs
C29_Witness ==
    /\ connection_heads = [A |-> "a", B |-> NoHead, C |-> "b"]
    /\ last_event.entry = "incomplete"

\* the recorded head of the upstream q has more work than that of r
Heavier(q, r) ==
    BlockOf(connection_heads[q]).total_difficulty[1] >
        BlockOf(connection_heads[r]).total_difficulty[1]

\* the upstreams with a recorded head that no recorded head outweighs
HeaviestRpcs ==
    {r \in RpcNames :
        /\ connection_heads[r] # NoHead
        /\ \A q \in RpcNames : connection_heads[q] # NoHead => ~Heavier(q, r)}

\* C30: whenever the heads recorded in connection_heads are all stored (the
\* loop over them runs to its end), the loop has a candidate, and every
\* candidate it can keep has a total difficulty greater than or equal to
\* that of the head of every upstream; the head published by an event is
\* such a candidate or one of the ancestors the walk reaches from it.
C30_CandidateHasMostWork ==
    /\ (HeadHashes(connection_heads) # {} /\ HeadHashes(connection_heads) \subseteq block_hashes)
          => /\ HighestWorkHashes(connection_heads) # {}
             /\ HighestWorkHashes(connection_heads) =
                    {connection_heads[r] : r \in HeaviestRpcs}
    /\ last_event.kind = "consensus"
          => \E r \in HeaviestRpcs :
                NewHead.hash \in WalkHashes(connection_heads[r], WalkDepth - 1)

\* A reports a, B and C report the heavier sibling b: the event publishes b
C30_Witness ==
    /\ connection_heads = [A |-> "a", B |-> "b", C |-> "b"]
    /\ last_event.kind = "consensus"
    /\ NewHead.hash = "b"

\* the block h, its parent and its grandparent, as far as they are stored
ThreeFrom(h) ==
    LET p == BlockOf(h).parent_hash
    IN  IF p \notin block_hashes THEN <<h>>
        ELSE LET g == BlockOf(p).parent_hash
             IN  IF g \notin block_hashes THEN <<h, p>> ELSE <<h, p, g>>

\* the upstreams whose head is one of the first i blocks of the sequence w
CountedAt(w, i) ==
    {r \in RpcNames : \E j \in 1..i : connection_heads[r] = w[j]}

\* the i-th block of w gathers both thresholds
PassesAt(w, i) ==
    /\ SumOver(SoftLimit, CountedAt(w, i)) >= config.min_sum_soft_limit
    /\ Cardinality(CountedAt(w, i)) >= config.min_synced_rpcs

\* C31: a published consensus head is the candidate head, its parent or its
\* grandparent; and when an event leaves recorded heads of which no
\* candidate, parent or grandparent gathers the thresholds, the empty
\* SyncedConnections is published, whatever deeper ancestors are stored and
\* whoever has them as head.
C31_WalkExaminesThreeBlocks ==
    /\ last_event.kind = "consensus"
          => \E r \in HeaviestRpcs :
                \E i \in DOMAIN ThreeFrom(connection_heads[r]) :
                    NewHead.hash = ThreeFrom(connection_heads[r])[i]
    /\ ( /\ last_event.kind \notin {"none", "error", "panic"}
         /\ HeadHashes(connection_heads) # {}
         /\ \A r \in HeaviestRpcs :
                \A i \in DOMAIN ThreeFrom(connection_heads[r]) :
                    ~PassesAt(ThreeFrom(connection_heads[r]), i) )
          => synced_connections = EmptySynced

\* A is on c, B and C are on its great-grandparent g, all of g, p, a and c
\* are stored and two upstreams are required: the walk from c stops at p
\* and nothing is published
C31_Witness ==
    /\ config.min_synced_rpcs = 2
    /\ connection_heads = [A |-> "c", B |-> "g", C |-> "g"]
    /\ {"g", "p", "a", "c"} \subseteq block_hashes
    /\ last_event.kind = "empty"
    /\ synced_connections = EmptySynced

\* C33: after every event whose block was recorded and saved without error
\* (the point where the tracker scans connection_heads), every hash in
\* connection_heads is a key of block_hashes.
C33_RecordedHeadsAreStored ==
    last_event.kind \notin {"none", "error"}
        => HeadHashes(connection_heads) \subseteq block_hashes

\* C34: when an event has been processed and leaves no upstream with a
\* recorded head, the published SyncedConnections has no head and no conns.
C34_NoHeadsPublishesEmpty ==
    ( /\ last_event.kind \notin {"none", "error", "panic"}
      /\ HeadHashes(connection_heads) = {} )
    => synced_connections = EmptySynced

\* C35: when an event yields a consensus head with the number and hash of
\* the head published before it, nothing is sent on the watch channel and
\* the published conns are the upstreams counted for this event: those
\* whose recorded head is the candidate or a block between the candidate
\* and the consensus head.
C35_SameHeadStillReplaced ==
    ( /\ last_event.kind = "consensus"
      /\ last_event.old_head = synced_connections.head_block_id )
    => /\ last_event.sends = 0
       /\ \E r \in HeaviestRpcs :
             \E i \in DOMAIN ThreeFrom(connection_heads[r]) :
                /\ ThreeFrom(connection_heads[r])[i] = NewHead.hash
                /\ synced_connections.conns = CountedAt(ThreeFrom(connection_heads[r]), i)

\* one upstream suffices and the head a was published before; the event
\* leaves all three upstreams on a: they are the conns, nothing is sent
C35_Witness ==
    /\ config.min_synced_rpcs = 1
    /\ last_event.kind = "consensus"
    /\ last_event.old_head = Some([hash |-> "a", num |-> 10])
    /\ synced_connections.head_block_id = last_event.old_head
    /\ connection_heads = [r \in RpcNames |-> "a"]
    /\ synced_connections.conns = RpcNames
    /\ last_event.sends = 0

\* C36: an event that sends a head on the watch channel sends a block whose
\* hash differs from that of the value sent before it.
C36_NoRepeatedNotification ==
    [][( /\ last_event' # last_event
         /\ last_event'.sends = 1
         /\ tracker' = "running" )
        => head_block_sender' # head_block_sender]_vars

\* the blocks with hash, total difficulty and a number other than 0
ConvergingBlocks == {b \in Blocks : IsComplete(b) /\ b.number[1] > 0}

\* C38: the pool passes both thresholds; in every reachable state in which
\* the tracker is running and the watch channel has receivers, whatever
\* events led there, when every upstream then reports the same complete
\* block b of number above 0, each of these events is processed and the
\* last one leaves the SyncedConnections with head b and every upstream in
\* conns.
C38_Convergence ==
    ( /\ tracker = "running"
      /\ watch_receivers
      /\ SumOver(SoftLimit, RpcNames) >= config.min_sum_soft_limit
      /\ Cardinality(RpcNames) >= config.min_synced_rpcs )
    => \A b \in ConvergingBlocks :
         \A o1 \in EventOutcomes(TrackerState, b, Rpcs[1]) :
           /\ o1.tracker = "running"
           /\ \A o2 \in EventOutcomes(o1, b, Rpcs[2]) :
                 /\ o2.tracker = "running"
                 /\ \A o3 \in EventOutcomes(o2, b, Rpcs[3]) :
                       /\ o3.tracker = "running"
                       /\ o3.synced = [head_block_id |-> Some(BlockId(b)),
                                       conns |-> RpcNames]

\* C18: whatever events arrive (a block with hash and number but without
\* total difficulty, a head publication that finds no watch receiver), the
\* tracker loop is still receiving until the block channel is closed.
C18_TrackerKeepsConsuming ==
    tracker # "closed" => tracker = "running"

----------------------------------------------------------------------------
(* Claims about the block graph *)

\* C2: in every reachable state, intermediate states of save_block and of
\* concurrent save_block / cannonical_block calls included, every hash that
\* block_numbers maps a number to is a key of block_hashes.
C2_NumbersInHashes ==
    \A n \in BlockNums : block_numbers[n] # NoHash => block_numbers[n] \in block_hashes

\* the block lacks its hash, its number or its total difficulty
LacksField(b) == b.hash = None \/ b.number = None \/ b.total_difficulty = None

CompleteBlocks == {b \in Blocks : ~LacksField(b)}

\* C14: save_block is idempotent: in every reachable graph state, for every
\* complete block b and flag f, a second and a third save_block(b, f) succeed
\* and leave hashes, numbers, nodes and edges as the first call left them.
C14_SaveBlockIdempotent ==
    \A b \in CompleteBlocks, f \in BOOLEAN :
        LET once == SaveBlock(Graph, b, f)
            twice == SaveBlock(once.g, b, f)
            thrice == SaveBlock(twice.g, b, f)
        IN  /\ once.ok /\ twice.ok /\ thrice.ok
            /\ twice.g = once.g
            /\ thrice.g = once.g

\* one caller has saved g (number 8) as a block of the heaviest chain, and a
\* second caller is inside save_block(g, true), past the upsert of
\* block_numbers and about to find the block stored
C14_Witness ==
    \E t, u \in Threads :
        /\ t # u
        /\ call[t] = Idle("Ok")
        /\ call[u].pc = "contains_key" /\ call[u].heaviest
        /\ call[u].block = BlockOf("g")
        /\ "g" \in block_hashes
        /\ block_numbers[8] = "g"
        /\ <<"r", "g">> \in graph_edges

\* C15: in every reachable graph state, save_block of a block that lacks its
\* hash, its number or its total difficulty fails (IncompleteBlock) and
\* leaves hashes, numbers, nodes and edges unchanged, whatever the flag.
C15_IncompleteBlockRejected ==
    \A b \in Blocks \ CompleteBlocks, f \in BOOLEAN :
        /\ SaveBlock(Graph, b, f) = [ok |-> FALSE, g |-> Graph]
        /\ EnterSaveBlock(b, f) = Idle("IncompleteBlock")

\* the tracker called save_block on the block t, which has a hash and a
\* number but no total difficulty: the call failed and the graph has no t
C15_Witness ==
    /\ last_event.kind = "error"
    /\ \E r \in RpcNames : connection_heads[r] = "t"
    /\ "t" \notin block_hashes /\ "t" \notin graph_nodes
    /\ \A n \in BlockNums : block_numbers[n] # "t"
    /\ block_hashes # {}

\* C16: in every reachable state, cannonical_block(num) with num greater than
\* the number of the consensus head fails with FutureBlock before it makes a
\* request, whatever block_numbers and block_hashes hold.
C16_FutureBlockRejected ==
    \A num \in BlockNums :
        (HeadBlockNum # None /\ num > HeadBlockNum[1]) =>
            CannonicalBlockUpToRequest(num) = "FutureBlock"

\* the graph the racing calls started on
GraphBeforeRace ==
    IF synced_connections.head_block_id = None
    THEN [hashes |-> {}, numbers |-> [n \in BlockNums |-> NoHash],
          nodes |-> {}, edges |-> {}]
    ELSE [hashes |-> {"a"}, numbers |-> [n \in BlockNums |-> NoHash],
          nodes |-> {"p", "a"}, edges |-> {<<"p", "a">>}]

\* the step with which the caller t, the last one inside save_block, returns
LastReturn(t) ==
    /\ call[t].pc # "idle"
    /\ \A u \in Threads : call'[u].pc = "idle"

\* the racing calls leave the graph as one call alone would
RaceLikeOneCall ==
    \A t \in Threads :
        LastReturn(t) =>
            LET one == SaveBlock(GraphBeforeRace, call[t].block, call[t].heaviest)
            IN  /\ one.ok
                /\ \A u \in Threads : call'[u].ret = "Ok"
                /\ block_hashes' = one.g.hashes
                /\ block_numbers' = one.g.numbers
                /\ graph_nodes' = one.g.nodes
                /\ graph_edges' = one.g.edges

\* the racing calls leave the block stored, with its node and one parent edge
RaceStoresBlock ==
    \A t \in Threads :
        LastReturn(t) =>
            LET b == call[t].block
            IN  /\ b.hash[1] \in block_hashes'
                /\ b.hash[1] \in graph_nodes'
                /\ {e \in graph_edges' : e[2] = b.hash[1]} = {<<b.parent_hash, b.hash[1]>>}

\* the caller t leaves save_block with Ok(())
ReturnsOk(t) ==
    /\ call[t].pc \in {"numbers", "contains_key", "write", "insert", "add_edge"}
    /\ call'[t].pc = "idle"
    /\ call'[t].ret = "Ok"

\* C32: whenever save_block(b, f) returns Ok for a block b with hash, number
\* and total difficulty, whatever calls came before (a child of b saved
\* first included), b.hash is a key of block_hashes.
C32_SavedBlockIsStored ==
    [][\A t \in Threads :
          ReturnsOk(t) => call[t].block.hash[1] \in block_hashes']_vars

\* C26: when the last of the concurrent save_block calls of one complete
\* block returns, whatever the interleaving, hashes, numbers, nodes and
\* edges are what a single call leaves, and the block is in hashes, its node
\* in the graph, with exactly one parent edge.
C26_ConcurrentSaveLikeOne ==
    [][RaceLikeOneCall /\ RaceStoresBlock]_vars

----------------------------------------------------------------------------
(* Claims about the stats aggregator *)

Balanced(counters) ==
    counters["frontend_requests"] = counters["cache_hits"] + counters["cache_misses"]

\* C3: for every aggregate, at every observation, frontend_requests =
\* cache_hits + cache_misses; the observations are the aggregate in memory
\* and the values the flush loop loads field by field into a row.
C3_FrontendIsHitsPlusMisses ==
    /\ \A a \in DOMAIN aggregates : Balanced(aggregates[a].counters)
    /\ \A r \in DOMAIN store : Balanced(store[r].counters)

\* where an inner map is: in the outer cache, in the flush queue, held by
\* the flush loop, or flushed
Live(c) == \E p \in StatPeriods : aggregated_proxy_responses[p] = c
Queued(c) == \E j \in DOMAIN save_rx : save_rx[j] = c
Flushed(c) == c \in DOMAIN user_caches /\ ~Live(c) /\ ~Queued(c) /\ saver.cache # c

\* the records of the period t and the key k whose aggregate_stat is done
RecordsOf(t, k) ==
    {i \in DOMAIN stat_tasks :
        /\ stat_tasks[i].pc = "done"
        /\ stat_tasks[i].stat.period_timestamp = t
        /\ UserProxyResponseKey(stat_tasks[i].stat) = k}

RowsOf(t, k) ==
    {j \in DOMAIN store : store[j].period_timestamp = t /\ store[j].key = k}

\* C19: a record whose request started in [t, t + period_seconds) gets the
\* period bucket t, and once the bucket's inner map is flushed (no insert
\* having failed, no shutdown) the store holds one row for each key that
\* records of the period were ingested under, with frontend_requests the
\* number of those records, and no row for the other keys.
C19_OneRowPerKeyWithCount ==
    /\ \A shape \in StatShapes, start \in 0..MaxStatClock :
          LET t == ProxyResponseStat(shape, start).period_timestamp
          IN  t % PeriodSeconds = 0 /\ t <= start /\ start < t + PeriodSeconds
    /\ (save_errors = 0 /\ aggregate_loop = "running") =>
          \A c \in DOMAIN user_caches : Flushed(c) =>
              \A k \in StatKeys :
                  LET t == user_caches[c].period_timestamp
                      n == Cardinality(RecordsOf(t, k))
                  IN  IF n = 0 THEN RowsOf(t, k) = {}
                      ELSE /\ Cardinality(RowsOf(t, k)) = 1
                           /\ \A j \in RowsOf(t, k) :
                                 store[j].counters["frontend_requests"] = n

\* the inner map c is in the outer cache apr
LiveIn(apr, c) == \E p \in StatPeriods : apr[p] = c
\* how many times the flush queue q holds the inner map c
TimesQueued(q, c) == Cardinality({j \in DOMAIN q : q[j] = c})

\* one step: an inner map that leaves the outer cache is put on the flush
\* queue once, by the invalidation at shutdown or when 3 x period_seconds
\* have passed since its entry was created, and never returns to the cache;
\* nothing else puts an inner map on the flush queue
HandedOverOnce ==
    \A c \in DOMAIN user_caches :
        LET was == LiveIn(aggregated_proxy_responses, c)
            is == LiveIn(aggregated_proxy_responses', c)
        IN  /\ ~was => ~is
            /\ (was /\ ~is) =>
                   /\ TimesQueued(save_rx', c) = TimesQueued(save_rx, c) + 1
                   /\ \/ aggregate_loop = "signalled" /\ aggregate_loop' = "panicked"
                      \/ stat_now >= user_caches[c].created + 3 * PeriodSeconds
            /\ (was = is) => TimesQueued(save_rx', c) <= TimesQueued(save_rx, c)
            /\ TimesQueued(save_rx', c) <= 1

C21_ShutdownDeliversAll ==
    /\ aggregate_loop = "panicked" => aggregate_rx = <<>>
    /\ \A i, j \in DOMAIN store :
          (/\ store[i].period_timestamp = store[j].period_timestamp
           /\ store[i].key = store[j].key) => i = j

\* C22: the ingest loop ends only by the successful return that follows the
\* eviction of all entries, the close of the flush queue and the flusher's
\* signal.
C22_IngestLoopReturns ==
    aggregate_loop \in {"running", "signalled", "returned"}

\* C23: once the shutdown has been carried out, every record aggregated and
\* every queued inner map written, the flush queue is closed, so that the
\* flush loop leaves its recv and exits.
C23_FlushLoopTerminates ==
    ( /\ aggregate_loop = "panicked"
      /\ aggregate_rx = <<>>
      /\ \A i \in DOMAIN stat_tasks : stat_tasks[i].pc = "done"
      /\ \A c \in DOMAIN user_caches : Flushed(c)
      /\ save_rx = <<>>
      /\ saver.pc = "recv" )
    => SaveRxDisconnected

\* the entries (inner map, key) the flush loop is through with
AttemptedEntries ==
    {e \in (DOMAIN user_caches) \X StatKeys :
        /\ user_caches[e[1]].entries[e[2]] # 0
        /\ \/ Flushed(e[1])
           \/ saver.cache = e[1] /\ e[2] \in saver.visited}

\* C24: a failed insert is logged and the flush loop goes on: every entry
\* of every inner map it is through with was attempted once (stored or
\* logged as failed), those that follow a failure in the same inner map and
\* in later inner maps included, and no entry has two rows.
C24_FailedSaveSkipsNothing ==
    /\ Len(store) + save_errors = Cardinality(AttemptedEntries)
    /\ \A t \in StatPeriods, k \in StatKeys :
          Cardinality(RowsOf(t, k)) <=
              Cardinality({e \in AttemptedEntries :
                              e[2] = k /\ user_caches[e[1]].period_timestamp = t})

\* the insert of the first entry of an inner map of two keys failed, and
\* the flush loop has stored the row of the second
C24_Witness ==
    /\ save_errors = 1
    /\ Len(store) = 1
    /\ saver.cache # 0
    /\ Cardinality(KeysOf(saver.cache)) = 2
    /\ saver.visited = KeysOf(saver.cache)
    /\ saver.key = store[1].key

\* the tasks whose record was counted into the inner map c under the key k
TasksOf(c, k) ==
    {i \in DOMAIN stat_tasks :
        /\ stat_tasks[i].user_cache = c
        /\ UserProxyResponseKey(stat_tasks[i].stat) = k}

\* the sum of the field f of the records of the tasks I
RECURSIVE SumOfRecords(_, _)
SumOfRecords(f, I) ==
    IF I = {} THEN 0
    ELSE LET i == CHOOSE x \in I : TRUE
         IN  stat_tasks[i].stat[f] + SumOfRecords(f, I \ {i})

AllTasksDone ==
    /\ aggregate_rx = <<>>
    /\ stat_tasks # <<>>
    /\ \A i \in DOMAIN stat_tasks : stat_tasks[i].pc = "done"

\* C25: when every aggregate_stat task has finished, whatever the
\* interleaving of their steps, the aggregate of each key of each inner map
\* counts every record ingested under the key, identical records each time:
\* frontend_requests their number, cache_hits those without backend
\* request, cache_misses those with, backend_requests and the three sums
\* the sums of the records' fields, and one histogram sample per record.
C25_NoUpdateLost ==
    AllTasksDone =>
        \A c \in DOMAIN user_caches, k \in StatKeys :
            LET I == TasksOf(c, k)
                a == user_caches[c].entries[k]
            IN  IF I = {} THEN a = 0
                ELSE /\ a # 0
                     /\ LET v == aggregates[a].counters
                        IN  /\ v["frontend_requests"] = Cardinality(I)
                            /\ v["cache_hits"] = Cardinality(
                                   {i \in I : stat_tasks[i].stat.backend_requests = 0})
                            /\ v["cache_misses"] = Cardinality(
                                   {i \in I : stat_tasks[i].stat.backend_requests > 0})
                            /\ v["backend_requests"] = SumOfRecords("backend_requests", I)
                            /\ v["sum_request_bytes"] = SumOfRecords("request_bytes", I)
                            /\ v["sum_response_bytes"] = SumOfRecords("response_bytes", I)
                            /\ v["sum_response_millis"] = SumOfRecords("response_millis", I)
                     /\ aggregates[a].histograms = Cardinality(I)

\* two identical records with backend requests were aggregated under one
\* key of one inner map
C25_Witness ==
    /\ AllTasksDone
    /\ Len(stat_tasks) = 2
    /\ stat_tasks[1].stat = stat_tasks[2].stat
    /\ stat_tasks[1].stat.backend_requests > 0
    /\ stat_tasks[1].user_aggregate = stat_tasks[2].user_aggregate
    /\ aggregates[stat_tasks[1].user_aggregate].counters["frontend_requests"] = 2

====
